---- MODULE Spec2Model ----
(***************************************************************************)
(* Request dispatch of the resource API layer (base.py): one request at a  *)
(* time travels dispatch -> verb handler -> transport (identity binding,   *)
(* check_permission, argument cleaning, business call, encoding) -> the    *)
(* verb handler's status rewrite.                                          *)
(***************************************************************************)
EXTENDS Integers, Sequences, FiniteSets, TLC

VARIABLES
    pc,          \* position of the request in the pipeline
    req,         \* the HttpRequest with the view (endpoint class) it was routed to
    controller,  \* self.controller: the Controller instance of this request
    handlerName, \* controller_method resolved by dispatch
    kwargs,      \* keyword arguments travelling from dispatch to the business method
    perm,        \* check_permission of this request: called?, its answer, the checks evaluated
    calls,       \* business methods invoked by the transport, with their arguments
    data,        \* what the try block of transport produced: the value the business
                 \* method returned, or the exception raised inside the block
    tresp,       \* what came back to the verb handler: a response, or an exception
    resp,        \* what the client receives
    storage,     \* SampleController.storage, a class attribute: the stored samples
                 \* in insertion order
    heap,        \* objects created while requests are handled concurrently
    tasks,       \* the requests handled concurrently, each a coroutine
    routes,      \* HttpRouter._routes: the PathConfig entries in registration order
    docs,        \* the OpenAPI documents generated so far, each with the route
                 \* table before and after its generation
    routers,     \* the HttpRouter instances of an application: router -> its _routes
    history,     \* router -> the register and append calls made on it, in call order
    swaggers,    \* the SwaggerRouter instances, each with its router and whether
                 \* its urls were obtained
    generator,   \* OpenAPIJsonView.generator, an attribute of the view class
    served       \* the last answer of an openapi.json view

vars == <<pc, req, controller, handlerName, kwargs, perm, calls, data, tresp, resp,
          storage, heap, tasks, routes, docs, routers, history, swaggers, generator,
          served>>

\* the variables of several routers
treeVars == <<routers, history>>

\* the variables of the documentation routers
swaggerVars == <<swaggers, generator, served>>

\* the variables of the router and the document generator
docVars == <<routes, docs, treeVars, swaggerVars>>

\* the variables of the concurrent requests
concVars == <<heap, tasks>>

-----------------------------------------------------------------------------
\* Bounds of the model
MaxChecks == 3     \* longest PERMISSIONS / THROTTLERS list of SpecPerm
MaxArrayLen == 2   \* longest JSON array body and longest list result
MaxSegLen == 2     \* longest path identity segment, in characters
MaxId == 4         \* largest identity SampleController assigns in SpecSample
MaxRequests == 2   \* requests handled concurrently in SpecConc
MaxRegistrations == 2  \* calls of HttpRouter.register in SpecDoc
MaxBuilds == 2     \* documents generated in SpecDoc
MaxValues == 2     \* most values a query string gives one name in SpecArgs
MaxCalls == 4      \* register and append calls in SpecRouter
MaxSwaggers == 2   \* SwaggerRouter instances in SpecSwagger

-----------------------------------------------------------------------------
\* Python values: None, str (a sequence of characters), int, list, model instance
None == <<>>
Some(x) == <<x>>
IsNone(o) == o = <<>>

PyStr(s) == [t |-> "str", v |-> s]
PyInt(n) == [t |-> "int", v |-> n]
PyList(xs) == [t |-> "list", v |-> xs]
PyModel(o) == [t |-> "model", v |-> o]

Chars == {"7", "a"}
Digits == {"0", "1", "2", "3", "4", "5", "6", "7", "8", "9"}

DigitVal(c) ==
    CASE c = "0" -> 0 [] c = "1" -> 1 [] c = "2" -> 2 [] c = "3" -> 3
      [] c = "4" -> 4 [] c = "5" -> 5 [] c = "6" -> 6 [] c = "7" -> 7
      [] c = "8" -> 8 [] c = "9" -> 9

DigitChar(d) ==
    CASE d = 0 -> "0" [] d = 1 -> "1" [] d = 2 -> "2" [] d = 3 -> "3"
      [] d = 4 -> "4" [] d = 5 -> "5" [] d = 6 -> "6" [] d = 7 -> "7"
      [] d = 8 -> "8" [] d = 9 -> "9"

\* int(s) of a character string succeeds on a non-empty run of digits
IsIntLiteral(s) == Len(s) > 0 /\ \A i \in 1..Len(s) : s[i] \in Digits

RECURSIVE StrToInt(_)
StrToInt(s) ==
    IF Len(s) = 0 THEN 0
    ELSE 10 * StrToInt(SubSeq(s, 1, Len(s) - 1)) + DigitVal(s[Len(s)])

RECURSIVE IntToStr(_)
IntToStr(n) ==
    IF n < 10 THEN <<DigitChar(n)>>
    ELSE IntToStr(n \div 10) \o <<DigitChar(n % 10)>>

\* repr of a list of strings, as str(list) builds it
RECURSIVE ReprItems(_)
ReprItems(xs) ==
    IF Len(xs) = 0 THEN <<>>
    ELSE <<"'">> \o Head(xs).v \o <<"'">>
         \o (IF Len(xs) > 1 THEN <<",", " ">> ELSE <<>>) \o ReprItems(Tail(xs))

ReprList(xs) == <<"[">> \o ReprItems(xs) \o <<"]">>

\* All sequences over S of length lo..hi
SeqsOf(S, lo, hi) == UNION {[1..n -> S] : n \in lo..hi}

Lower(verb) ==
    CASE verb = "GET" -> "get" [] verb = "POST" -> "post" [] verb = "PUT" -> "put"
      [] verb = "DELETE" -> "delete" [] verb = "PATCH" -> "patch"
      [] OTHER -> ""

-----------------------------------------------------------------------------
\* Resources (BaseResource, SampleResource, AlterResource)

Resources == {"BaseResource", "SampleResource", "AlterResource"}

\* BaseResource.pk, inherited by every resource
ResourcePk(resource) == "id"

\* resource.Retrieve.model_fields.get(resource.pk): the annotation of the
\* identity field, None when Retrieve declares no such field
PkFieldAnnotation(resource) ==
    CASE resource = "SampleResource" -> Some("int")
      [] resource = "AlterResource" -> Some("int")
      [] OTHER -> None

-----------------------------------------------------------------------------
\* Operation registry: MethodMapping and the action decorator

MethodMapping(func_name, methods, detail, url_path, resource) ==
    [func_name |-> func_name, methods |-> methods, detail |-> detail,
     url_path |-> url_path, resource |-> resource]

\* action(methods=None, detail=True, url_path=None, resource=None)(func)
action(func_name, methods, detail, url_path, resource) ==
    MethodMapping(func_name,
                  IF IsNone(methods) THEN <<"GET">> ELSE methods[1],
                  detail,
                  IF IsNone(url_path) THEN func_name ELSE url_path[1],
                  resource)

\* MethodMapping.build_methods_map: lower-cased verb -> func_name
build_methods_map(m) ==
    [v \in {Lower(m.methods[i]) : i \in 1..Len(m.methods)} |-> m.func_name]

-----------------------------------------------------------------------------
\* Controllers: BaseController and SampleController

Controllers == {"BaseController", "SampleController"}

\* a controller an application may declare next to the sample: its Resource
\* is AlterResource, it implements create_one, declares the collection
\* action bulk(self, data, **extra) with @action(methods=['POST'],
\* detail=False), and overrides get_one(self, pk: int) and
\* get_many(self, limit: int = None) without a **catch-all
RouterControllers == Controllers \cup {"BulkController"}

ControllerResource(ctrl) ==
    CASE ctrl = "SampleController" -> "SampleResource"
      [] ctrl = "BulkController" -> "AlterResource"
      [] OTHER -> "BaseResource"

\* the MethodMapping attributes of the controller class
Actions(ctrl) ==
    IF ctrl = "SampleController"
    THEN {action("action_detail", None, TRUE, None, None),
          action("action_detail_all_methods", Some(<<"GET", "POST">>), TRUE,
                 Some("all-methods"), None),
          action("action_alter_resource", None, TRUE, Some("alter-resource"),
                 Some("AlterResource")),
          action("action_detail_many", None, FALSE, Some("action-many"), None)}
    ELSE IF ctrl = "BulkController"
    THEN {action("bulk", Some(<<"POST">>), FALSE, None, None)}
    ELSE {}

ActionNames(ctrl) == {m.func_name : m \in Actions(ctrl)}

ActionOf(ctrl, name) == CHOOSE m \in Actions(ctrl) : m.func_name = name

\* the business operations found in dir(Controller)
Dir(ctrl) ==
    IF ctrl = "SampleController"
    THEN {"get_one", "get_many", "create_one", "create_many", "update_one",
          "delete_one", "delete_many"} \cup ActionNames(ctrl)
    ELSE IF ctrl = "BulkController"
    THEN {"get_one", "get_many", "create_one"} \cup ActionNames(ctrl)
    ELSE {"get_one", "get_many"}

\* inspect.getfullargspec of a business function: positional names, the
\* annotations (Generic stands for a subscripted typing alias, Model for a
\* schema class) and whether a **catch-all is declared
FuncSpec(ctrl, name) ==
    CASE name = "get_one" /\ ctrl = "BulkController" ->
            [args |-> {"self", "pk"}, varkw |-> FALSE,
             annotations |-> ("pk" :> "int" @@ "return" :> "Generic")]
      [] name = "get_many" /\ ctrl = "BulkController" ->
            [args |-> {"self", "limit"}, varkw |-> FALSE,
             annotations |-> ("limit" :> "int" @@ "return" :> "Generic")]
      [] name = "bulk" ->
            [args |-> {"self", "data"}, varkw |-> TRUE,
             annotations |-> ("return" :> "Generic")]
      [] name = "get_one" /\ ctrl = "SampleController" ->
            [args |-> {"self", "pk"}, varkw |-> TRUE,
             annotations |-> ("pk" :> "int" @@ "return" :> "Generic")]
      [] name = "get_one" ->
            [args |-> {"self", "pk"}, varkw |-> TRUE,
             annotations |-> ("pk" :> "Any" @@ "return" :> "Generic")]
      [] name = "get_many" /\ ctrl = "SampleController" ->
            [args |-> {"self", "order_by", "limit", "offset"}, varkw |-> TRUE,
             annotations |-> ("order_by" :> "Any" @@ "limit" :> "int"
                              @@ "offset" :> "Any" @@ "return" :> "Generic")]
      [] name = "get_many" ->
            [args |-> {"self", "order_by", "limit", "offset"}, varkw |-> TRUE,
             annotations |-> ("order_by" :> "Any" @@ "limit" :> "int"
                              @@ "offset" :> "int" @@ "return" :> "Generic")]
      [] name = "create_one" ->
            [args |-> {"self", "data"}, varkw |-> TRUE,
             annotations |-> ("data" :> "Model" @@ "return" :> "Model")]
      [] name = "create_many" ->
            [args |-> {"self", "data"}, varkw |-> TRUE,
             annotations |-> ("data" :> "Generic" @@ "return" :> "Generic")]
      [] name = "update_one" ->
            [args |-> {"self", "pk", "data"}, varkw |-> TRUE,
             annotations |-> ("pk" :> "int" @@ "data" :> "Model"
                              @@ "return" :> "Generic")]
      [] name = "delete_one" ->
            [args |-> {"self", "pk"}, varkw |-> TRUE,
             annotations |-> ("pk" :> "Any" @@ "return" :> "Generic")]
      [] name = "delete_many" ->
            [args |-> {"self", "id"}, varkw |-> TRUE,
             annotations |-> ("id" :> "Generic" @@ "return" :> "Generic")]
      [] name = "action_detail_many" ->
            [args |-> {"self", "order_by", "limit", "offset"}, varkw |-> TRUE,
             annotations |-> ("order_by" :> "Any" @@ "limit" :> "int"
                              @@ "offset" :> "Any" @@ "return" :> "Generic")]
      [] OTHER ->  \* action_detail, action_detail_all_methods, action_alter_resource
            [args |-> {"self", "pk"}, varkw |-> TRUE,
             annotations |-> ("return" :> "Generic")]

\* getfullargspec of the wrapper _restore_bound_method returns:
\* bound_method(*args, **kwargs), no annotations
BoundMethodSpec == [args |-> {}, varkw |-> TRUE, annotations |-> <<>>]

-----------------------------------------------------------------------------
\* Endpoint classes (transports) and the views HttpRouter.register binds

SingleMethodMap == ("get" :> "get_one" @@ "put" :> "update_one" @@ "delete" :> "delete_one")
ManyMethodMap == ("get" :> "get_many" @@ "put" :> "update_many" @@ "delete" :> "delete_many")

DefaultMethodMap(engine) == IF engine = "single" THEN SingleMethodMap ELSE ManyMethodMap

\* BaseAsyncHttpTransport.create_type_for(controller, method_map=None)
create_type_for(engine, ctrl, method_map) ==
    [engine |-> engine, Controller |-> ctrl,
     METHOD_MAP |-> IF IsNone(method_map) \/ DOMAIN method_map[1] = {}
                    THEN DefaultMethodMap(engine) ELSE method_map[1]]

\* the view classes register() creates for a controller: one per action,
\* then the single-entity and the collection baseline
RegisterViews(ctrl) ==
    {create_type_for(IF m.detail THEN "single" ELSE "many", ctrl,
                     Some(build_methods_map(m))) : m \in Actions(ctrl)}
    \cup {create_type_for("single", ctrl, None), create_type_for("many", ctrl, None)}

Views == UNION {RegisterViews(c) : c \in Controllers}

-----------------------------------------------------------------------------
\* Python dicts are functions from names; a | b lets b win on shared names
EmptyDict == <<>>
DictOr(a, b) == b @@ a
DictPop(d, name) == [n \in DOMAIN d \ {name} |-> d[n]]

-----------------------------------------------------------------------------
\* HTTP responses

NoHeaders == [ctype |-> None, cdisp |-> None, xtotal |-> None]
EmptyBody == [kind |-> "empty", text |-> "", items |-> <<>>]
TextBody(msg) == [kind |-> "text", text |-> msg, items |-> <<>>]

\* HttpResponse(status=..., content=...)
HttpResponse(status, body) ==
    [status |-> status, body |-> body, headers |-> NoHeaders, exc |-> "", origin |-> "error"]

HttpResponseBadRequest(msg) == HttpResponse(400, TextBody(msg))

\* View.http_method_not_allowed
HttpResponseNotAllowed == HttpResponse(405, EmptyBody)

\* an exception leaving the view: Http404 becomes the substrate's 404, any
\* other exception its 500
Raised(exc) ==
    [status |-> IF exc = "Http404" THEN 404 ELSE 500, body |-> EmptyBody,
     headers |-> NoHeaders, exc |-> exc, origin |-> "raise"]

\* JsonResponse(content, safe=False) of model_dump(mode='json'): a JSON object
\* for a model instance, a JSON array with one object per item for a list
JsonResponse(d) ==
    [status |-> 200,
     body |-> IF d.t = "list"
              THEN [kind |-> "json-array", text |-> "",
                    items |-> [i \in 1..Len(d.v) |-> d.v[i].v]]
              ELSE [kind |-> "json-object", text |-> "", items |-> <<d.v>>],
     headers |-> [ctype |-> Some("application/json"), cdisp |-> None, xtotal |-> None],
     exc |-> "", origin |-> "json"]

NoResponse == [status |-> 0, body |-> EmptyBody, headers |-> NoHeaders, exc |-> "", origin |-> "none"]

-----------------------------------------------------------------------------
\* BaseController.check_permission: the outcome of each configured check on
\* this request is perms[i] / throttles[i]; the log lists the checks evaluated

RECURSIVE EvalChecks(_, _, _)
EvalChecks(kind, outcomes, i) ==
    IF i > Len(outcomes) THEN [ok |-> TRUE, log |-> <<>>]
    ELSE IF ~outcomes[i] THEN [ok |-> FALSE, log |-> <<[kind |-> kind, idx |-> i]>>]
    ELSE LET rest == EvalChecks(kind, outcomes, i + 1)
         IN  [ok |-> rest.ok, log |-> <<[kind |-> kind, idx |-> i]>> \o rest.log]

\* mutant: throttles are evaluated although a permission failed
check_permission_no_short_circuit(perms, throttles) ==
    LET p == EvalChecks("permission", perms, 1)
        t == EvalChecks("throttle", throttles, 1)
    IN  [ok |-> p.ok /\ t.ok, log |-> p.log \o t.log]

check_permission(perms, throttles) ==
    LET p == EvalChecks("permission", perms, 1)
    IN  IF ~p.ok THEN p
        ELSE LET t == EvalChecks("throttle", throttles, 1)
             IN  [ok |-> t.ok, log |-> p.log \o t.log]

-----------------------------------------------------------------------------
\* Operation lookup

\* BaseAsyncHttpTransport._get_controller_method: METHOD_MAP.get(method.lower())
BaseGetControllerMethod(view, request) ==
    LET method == Lower(request.method)
    IN  IF method \in DOMAIN view.METHOD_MAP THEN Some(view.METHOD_MAP[method]) ELSE None

\* json.loads(request.body.decode()) fails on a malformed body
JsonLoads(body) ==
    IF body.kind = "malformed" THEN [ok |-> FALSE, payload |-> body]
    ELSE [ok |-> TRUE, payload |-> body]

\* mutant: a list payload is not told apart from an object payload
ManyGetControllerMethodIgnoresList(view, request) ==
    IF Lower(request.method) = "post"
    THEN IF request.content_type = "application/json"
         THEN IF request.body.kind = "empty"
              THEN [t |-> "response", resp |-> HttpResponseBadRequest("Request has empty body !"), name |-> None]
              ELSE IF ~JsonLoads(request.body).ok
                   THEN [t |-> "response", resp |-> HttpResponseBadRequest("json error"), name |-> None]
                   ELSE LET m0 == BaseGetControllerMethod(view, request)
                        IN  [t |-> "name", resp |-> NoResponse,
                             name |-> Some(IF IsNone(m0) THEN "create_one" ELSE m0[1])]
         ELSE [t |-> "response", resp |-> HttpResponseBadRequest("Content Type not allowed !"), name |-> None]
    ELSE [t |-> "name", resp |-> NoResponse, name |-> BaseGetControllerMethod(view, request)]

\* ManyResourceAsyncHttpTransport._get_controller_method
ManyGetControllerMethod(view, request) ==
    IF Lower(request.method) = "post"
    THEN IF request.content_type = "application/json"
         THEN IF request.body.kind = "empty"
              THEN [t |-> "response", resp |-> HttpResponseBadRequest("Request has empty body !"), name |-> None]
              ELSE IF ~JsonLoads(request.body).ok
                   THEN [t |-> "response", resp |-> HttpResponseBadRequest("json error"), name |-> None]
                   ELSE LET m0 == BaseGetControllerMethod(view, request)
                            m1 == IF IsNone(m0) THEN "create_one" ELSE m0[1]
                            m2 == IF m1 = "create_one" /\ request.body.kind = "array"
                                  THEN "create_many" ELSE m1
                        IN  [t |-> "name", resp |-> NoResponse, name |-> Some(m2)]
         ELSE [t |-> "response", resp |-> HttpResponseBadRequest("Content Type not allowed !"), name |-> None]
    ELSE [t |-> "name", resp |-> NoResponse, name |-> BaseGetControllerMethod(view, request)]

_get_controller_method(view, request) ==
    IF view.engine = "many" THEN ManyGetControllerMethod(view, request)
    ELSE [t |-> "name", resp |-> NoResponse, name |-> BaseGetControllerMethod(view, request)]

-----------------------------------------------------------------------------
\* Body validation

\* model.model_validate(obj, strict=True) of each item of the payload; the
\* validator's verdict on an item is part of the request body
ValidatePayload(body) ==
    CASE body.kind = "array" ->
            IF \A i \in 1..Len(body.items) : body.items[i]
            THEN [ok |-> TRUE, data |-> PyList([i \in 1..Len(body.items) |-> PyModel(i)])]
            ELSE [ok |-> FALSE, data |-> PyList(<<>>)]
      [] body.kind = "object" ->
            [ok |-> body.valid, data |-> PyModel(0)]
      [] OTHER -> [ok |-> FALSE, data |-> PyModel(0)]

\* BaseAsyncHttpTransport._idempotent_method up to its call of transport:
\* a 400 response, or the kwargs transport is called with
_idempotent_method(request, model, kw) ==
    IF request.content_type # "application/json" /\ Lower(request.method) # "delete"
    THEN [t |-> "response", resp |-> HttpResponseBadRequest("Content Type not allowed !"), kwargs |-> kw]
    ELSE IF IsNone(model)
    THEN [t |-> "transport", resp |-> NoResponse, kwargs |-> kw]
    ELSE IF request.body.kind = "empty"
    THEN [t |-> "response", resp |-> HttpResponseBadRequest("Request has empty body !"), kwargs |-> kw]
    ELSE IF ~JsonLoads(request.body).ok
    THEN [t |-> "response", resp |-> HttpResponseBadRequest("json error"), kwargs |-> kw]
    ELSE LET v == ValidatePayload(JsonLoads(request.body).payload)
         IN  IF ~v.ok
             THEN [t |-> "response", resp |-> HttpResponseBadRequest("validation error"), kwargs |-> kw]
             ELSE [t |-> "transport", resp |-> NoResponse,
                   kwargs |-> DictOr(kw, "data" :> v.data)]

-----------------------------------------------------------------------------
\* Argument cleaning

\* mutant: the value is handed on without being constructed
ConstructKeepsValue(typ, x) == [exc |-> "", v |-> x]

\* typ(x): calling an annotation as a one-argument constructor
Construct(typ, x) ==
    CASE typ = "int" /\ x.t = "int" -> [exc |-> "", v |-> x]
      [] typ = "int" /\ x.t = "str" ->
            IF IsIntLiteral(x.v) THEN [exc |-> "", v |-> PyInt(StrToInt(x.v))]
            ELSE [exc |-> "ValueError", v |-> x]
      [] typ = "str" /\ x.t = "str" -> [exc |-> "", v |-> x]
      [] typ = "str" /\ x.t = "int" -> [exc |-> "", v |-> PyStr(IntToStr(x.v))]
      [] typ = "str" /\ x.t = "list" -> [exc |-> "", v |-> PyStr(ReprList(x.v))]
      [] OTHER -> [exc |-> "TypeError", v |-> x]

\* one iteration of the loop of _clean_args over (name, val)
CleanItem(spec, name, val) ==
    IF name \in DOMAIN spec.annotations
    THEN LET typ == spec.annotations[name]
             typ_is_generic == typ # "Any" /\ typ = "Generic"
         IN  IF typ # "Any" /\ val.t = "list" /\ Len(val.v) = 1 /\ ~typ_is_generic
             THEN LET c == Construct(typ, val.v[1])
                  IN  [keep |-> TRUE, exc |-> c.exc, v |-> c.v]
             ELSE LET c == Construct(typ, val)
                  IN  [keep |-> TRUE, exc |-> "", v |-> IF c.exc = "" THEN c.v ELSE val]
    ELSE IF spec.varkw
    THEN [keep |-> TRUE, exc |-> "",
          v |-> IF val.t = "list" /\ Len(val.v) = 1 THEN val.v[1] ELSE val]
    ELSE [keep |-> FALSE, exc |-> "", v |-> val]

\* BaseAsyncHttpTransport._clean_args(handler, **kwargs): the cleaned dict, or
\* the exception the first failing constructor raised
_clean_args(spec, kw) ==
    LET bad == {n \in DOMAIN kw : CleanItem(spec, n, kw[n]).exc # ""}
    IN  IF bad # {}
        THEN [exc |-> CleanItem(spec, CHOOSE n \in bad : TRUE,
                                kw[CHOOSE n \in bad : TRUE]).exc,
              ret |-> EmptyDict]
        ELSE [exc |-> "",
              ret |-> [n \in {m \in DOMAIN kw : CleanItem(spec, m, kw[m]).keep}
                         |-> CleanItem(spec, n, kw[n]).v]]

-----------------------------------------------------------------------------
\* Requests

Methods == {"GET", "POST", "PUT", "DELETE", "PATCH"}
ContentTypes == {"application/json", "text/plain"}

RequestBody(kind, valid, items) == [kind |-> kind, valid |-> valid, items |-> items]

\* bodies: empty, not JSON, a JSON scalar, a JSON object the validator accepts
\* or rejects, a JSON array with the validator's verdict on each item
Bodies ==
    {RequestBody("empty", FALSE, <<>>), RequestBody("malformed", FALSE, <<>>),
     RequestBody("scalar", FALSE, <<>>), RequestBody("object", TRUE, <<>>),
     RequestBody("object", FALSE, <<>>)}
    \cup {RequestBody("array", TRUE, items) : items \in SeqsOf(BOOLEAN, 0, MaxArrayLen)}

\* GET, DELETE and PATCH requests are sent without a body
BodiesFor(method) ==
    IF method \in {"POST", "PUT"} THEN Bodies ELSE {RequestBody("empty", FALSE, <<>>)}

\* path identity segments
Segments == SeqsOf(Chars, 1, MaxSegLen)

\* request.GET: name -> list of values
Queries == {EmptyDict, "limit" :> PyList(<<PyStr(<<"7">>)>>)}

\* outcomes of the controller's PERMISSIONS and THROTTLERS on the request
PermCases ==
    {[perms |-> <<>>, throttles |-> <<>>]}
    \cup {[perms |-> <<p>>, throttles |-> <<t>>] : p \in BOOLEAN, t \in BOOLEAN}

NoRequest ==
    [view |-> create_type_for("many", "BaseController", None), method |-> "",
     content_type |-> "", body |-> RequestBody("empty", FALSE, <<>>), pk |-> <<>>,
     GET |-> EmptyDict, perms |-> <<>>, throttles |-> <<>>]

\* BaseAsyncHttpTransport._extra_params: dict(request.GET)
_extra_params(request) == request.GET

-----------------------------------------------------------------------------
\* Controller instances and business results

\* check_permission was not called yet
NoPermission == [checked |-> FALSE, ok |-> FALSE, log |-> <<>>]

\* the business method has not returned
NoData == [t |-> "unset", v |-> 0]

NoMetadata == [total_count |-> None, content_type |-> None, content_name |-> None]

\* BaseController.__init__
NewController(ctrl) == [cls |-> ctrl, method |-> "", metadata |-> NoMetadata]

NoController == [cls |-> "", method |-> "", metadata |-> NoMetadata]

PyNone == [t |-> "None", v |-> 0]
PyResponse(r) == [t |-> "response", v |-> r]
PyRaise(e) == [t |-> "raise", v |-> e]

\* responses a business method may build itself
RawResponses ==
    {[status |-> st, body |-> [kind |-> "raw", text |-> "file", items |-> <<>>],
      headers |-> [ctype |-> Some("text/plain"), cdisp |-> None, xtotal |-> None],
      exc |-> "", origin |-> "raw"] : st \in {200, 202}}

\* what a business method may do: return None, a model instance, a list of
\* them, a response of its own, or raise
HandlerResults ==
    {PyNone, PyModel(1)}
    \cup {PyList(xs) : xs \in SeqsOf({PyModel(1)}, 0, MaxArrayLen)}
    \cup {PyResponse(r) : r \in RawResponses}
    \cup {PyRaise(e) : e \in {"ValidationError", "ValueError", "UnicodeDecodeError",
                              "RuntimeError", "Http404"}}

\* SampleController.storage as the class body builds it: samples 1 and 2
InitialStorage == <<1, 2>>

\* the routers of an application: HttpRouter('api') and the routers
\* HttpRouter('v1') and HttpRouter('v2') it may take in with append
RouterNames == {"api", "v1", "v2"}

\* HttpRouter.__init__: self._routes = []
NoRoutes == [r \in RouterNames |-> <<>>]

\* no call was made on any router
NoHistory == [r \in RouterNames |-> <<>>]

\* no request is being handled concurrently
NoTask == [pc |-> "new", view |-> create_type_for("many", "SampleController", None),
           self |-> 0, bound_to |-> 0, wrote |-> NoMetadata, headers |-> NoHeaders]

NoTasks == [r \in 1..MaxRequests |-> NoTask]

\* what a business method may leave in self.metadata
MetadataWrites ==
    {[total_count |-> tc, content_type |-> ct, content_name |-> cn] :
        tc \in {None, Some(0), Some(2)}, ct \in {None, Some("text/csv")},
        cn \in {None, Some("attachment")}}

-----------------------------------------------------------------------------
\* The request pipeline

Init ==
    /\ pc = "idle"
    /\ req = NoRequest
    /\ controller = NoController
    /\ handlerName = ""
    /\ kwargs = EmptyDict
    /\ perm = NoPermission
    /\ calls = <<>>
    /\ data = NoData
    /\ tresp = NoResponse
    /\ resp = NoResponse
    /\ storage = InitialStorage
    /\ heap = <<>>
    /\ tasks = NoTasks
    /\ routes = <<>>
    /\ docs = <<>>
    /\ routers = NoRoutes
    /\ history = NoHistory
    /\ swaggers = <<>>
    /\ generator = None
    /\ served = <<>>

\* as_view(): a request arrives at the view its path resolved to; a fresh view
\* instance is set up for it, with the identity segment as URL kwarg
Receive ==
    /\ pc = "idle"
    /\ \E view \in Views, method \in Methods, ct \in ContentTypes,
          q \in Queries, c \in PermCases :
         \E body \in BodiesFor(method),
            seg \in (IF view.engine = "single" THEN Segments ELSE {<<>>}) :
            req' = [view |-> view, method |-> method, content_type |-> ct,
                    body |-> body, pk |-> seg, GET |-> q,
                    perms |-> c.perms, throttles |-> c.throttles]
    /\ pc' = "dispatch"
    /\ controller' = NoController
    /\ handlerName' = ""
    /\ kwargs' = EmptyDict
    /\ perm' = NoPermission
    /\ calls' = <<>>
    /\ data' = NoData
    /\ tresp' = NoResponse
    /\ resp' = NoResponse
    /\ UNCHANGED <<storage, concVars, docVars>>

\* the keyword arguments the URL resolver passes to the view
UrlKwargs(request) ==
    IF request.view.engine = "single"
    THEN ResourcePk(ControllerResource(request.view.Controller)) :> PyStr(request.pk)
    ELSE EmptyDict

\* kwargs['resource'] chosen by dispatch
HandlerResource(ctrl, name) ==
    IF name \in ActionNames(ctrl) /\ ~IsNone(ActionOf(ctrl, name).resource)
    THEN ActionOf(ctrl, name).resource[1]
    ELSE ControllerResource(ctrl)

\* BaseAsyncHttpTransport.dispatch
dispatch ==
    /\ pc = "dispatch"
    /\ LET m == _get_controller_method(req.view, req)
           ctrl == req.view.Controller
       IN  IF m.t = "response"
           THEN /\ resp' = m.resp
                /\ pc' = "done"
                /\ UNCHANGED <<controller, handlerName, kwargs>>
           ELSE IF ~IsNone(m.name) /\ m.name[1] \in Dir(ctrl)
           THEN /\ controller' = [NewController(ctrl) EXCEPT !.method = req.method]
                /\ handlerName' = m.name[1]
                /\ kwargs' = UrlKwargs(req)
                /\ pc' = "handler"
                /\ UNCHANGED resp
           ELSE /\ resp' = HttpResponseNotAllowed
                /\ pc' = "done"
                /\ UNCHANGED <<controller, handlerName, kwargs>>
    /\ UNCHANGED <<req, perm, calls, data, tresp>>
    /\ UNCHANGED <<storage, concVars, docVars>>

\* BaseAsyncHttpTransport.get, up to its call of transport
get ==
    /\ pc = "handler"
    /\ Lower(req.method) = "get"
    /\ kwargs' = DictOr(_extra_params(req), kwargs)
    /\ pc' = "transport"
    /\ UNCHANGED <<req, controller, handlerName, perm, calls, data, tresp, resp>>
    /\ UNCHANGED <<storage, concVars, docVars>>

\* mutant: post and delete set their status whatever the response carries
VerbStatusUnconditional(method, r) ==
    IF Lower(method) = "post" THEN [r EXCEPT !.status = 201]
    ELSE IF Lower(method) = "delete" THEN [r EXCEPT !.status = 204]
    ELSE r

\* what the verb handler does with the response it got back: post
\* turns 200 into 201, delete turns 200 into 204, get and put return it
VerbStatus(method, r) ==
    IF Lower(method) = "post" /\ r.status = 200 THEN [r EXCEPT !.status = 201]
    ELSE IF Lower(method) = "delete" /\ r.status = 200 THEN [r EXCEPT !.status = 204]
    ELSE r

\* post, put and delete call _idempotent_method, which answers 400 itself or
\* calls transport; the 400 comes back to the verb handler like any response
IdempotentStep(model) ==
    LET r == _idempotent_method(req, model, kwargs)
    IN  IF r.t = "response"
        THEN /\ tresp' = r.resp
             /\ resp' = VerbStatus(req.method, r.resp)
             /\ pc' = "done"
             /\ UNCHANGED kwargs
        ELSE /\ kwargs' = r.kwargs
             /\ pc' = "transport"
             /\ UNCHANGED <<resp, tresp>>

\* BaseAsyncHttpTransport.post, up to the return of _idempotent_method
post ==
    /\ pc = "handler"
    /\ Lower(req.method) = "post"
    /\ IdempotentStep(Some("Create"))
    /\ UNCHANGED <<req, controller, handlerName, perm, calls, data>>
    /\ UNCHANGED <<storage, concVars, docVars>>

\* BaseAsyncHttpTransport.put
put ==
    /\ pc = "handler"
    /\ Lower(req.method) = "put"
    /\ IdempotentStep(Some("Update"))
    /\ UNCHANGED <<req, controller, handlerName, perm, calls, data>>
    /\ UNCHANGED <<storage, concVars, docVars>>

\* BaseAsyncHttpTransport.delete, up to the return of _idempotent_method
delete ==
    /\ pc = "handler"
    /\ Lower(req.method) = "delete"
    /\ IdempotentStep(None)
    /\ UNCHANGED <<req, controller, handlerName, perm, calls, data>>
    /\ UNCHANGED <<storage, concVars, docVars>>

-----------------------------------------------------------------------------
\* transport

\* SingleResourceAsyncHttpTransport.transport: binding of the identity
SingleTransportPk ==
    /\ pc = "transport"
    /\ req.view.engine = "single"
    /\ LET ctrl == req.view.Controller
           resource == HandlerResource(ctrl, handlerName)
           pkname == ResourcePk(resource)
           spec == FuncSpec(ctrl, handlerName)
       IN  IF pkname \notin DOMAIN kwargs
           THEN /\ tresp' = Raised("Http404")
                /\ pc' = "return"
                /\ UNCHANGED kwargs
           ELSE IF "pk" \in spec.args
           THEN LET pk_field == PkFieldAnnotation(resource)
                IN  IF IsNone(pk_field)
                    THEN /\ kwargs' = DictOr(DictPop(kwargs, pkname), "pk" :> kwargs[pkname])
                         /\ pc' = "permission"
                         /\ UNCHANGED tresp
                    ELSE LET c == Construct(pk_field[1], kwargs[pkname])
                         IN  IF c.exc = "ValueError"
                             THEN /\ tresp' = Raised("Http404")
                                  /\ pc' = "return"
                                  /\ UNCHANGED kwargs
                             ELSE IF c.exc # ""
                             THEN /\ tresp' = Raised(c.exc)
                                  /\ pc' = "return"
                                  /\ UNCHANGED kwargs
                             ELSE /\ kwargs' = DictOr(DictPop(kwargs, pkname), "pk" :> c.v)
                                  /\ pc' = "permission"
                                  /\ UNCHANGED tresp
           ELSE /\ pc' = "permission"
                /\ UNCHANGED <<kwargs, tresp>>
    /\ UNCHANGED <<req, controller, handlerName, perm, calls, data, resp>>
    /\ UNCHANGED <<storage, concVars, docVars>>

\* mutant: the 403 is built but not returned
CheckPermissionFallsThrough ==
    /\ \/ pc = "permission" /\ req.view.engine = "single"
       \/ pc = "transport" /\ req.view.engine = "many"
    /\ LET r == check_permission(req.perms, req.throttles)
       IN  /\ perm' = [checked |-> TRUE, ok |-> r.ok, log |-> r.log]
           /\ pc' = "call"
           /\ UNCHANGED tresp
    /\ UNCHANGED <<req, controller, handlerName, kwargs, calls, data, resp>>
    /\ UNCHANGED <<storage, concVars, docVars>>

\* both transports: self.controller.check_permission(request, handler)
CheckPermission ==
    /\ \/ pc = "permission" /\ req.view.engine = "single"
       \/ pc = "transport" /\ req.view.engine = "many"
    /\ LET r == check_permission(req.perms, req.throttles)
       IN  /\ perm' = [checked |-> TRUE, ok |-> r.ok, log |-> r.log]
           /\ IF r.ok
              THEN pc' = "call" /\ UNCHANGED tresp
              ELSE pc' = "return" /\ tresp' = HttpResponse(403, EmptyBody)
    /\ UNCHANGED <<req, controller, handlerName, kwargs, calls, data, resp>>
    /\ UNCHANGED <<storage, concVars, docVars>>

\* exception classes a business method may raise, and isinstance on them:
\* pydantic's ValidationError and UnicodeDecodeError derive from ValueError
Exceptions == {"ValidationError", "ValueError", "UnicodeDecodeError", "RuntimeError", "Http404"}

ExcBases(exc) ==
    CASE exc = "ValidationError" -> {"ValidationError", "ValueError", "Exception"}
      [] exc = "UnicodeDecodeError" -> {"UnicodeDecodeError", "ValueError", "Exception"}
      [] OTHER -> {exc, "Exception"}

IsInstance(exc, cls) == cls \in ExcBases(exc)

\* mutant: only the class ValueError itself is turned into a 400
ClassifyExceptionExactClass(exc) ==
    CASE exc = "ValidationError" -> HttpResponse(400, TextBody("errors"))
      [] exc = "ValueError" -> HttpResponse(400, TextBody("message"))
      [] OTHER -> Raised(exc)

\* the except clause around the business call
ClassifyException(exc) ==
    CASE IsInstance(exc, "ValidationError") -> HttpResponse(400, TextBody("errors"))
      [] IsInstance(exc, "ValueError") -> HttpResponse(400, TextBody("message"))
      [] OTHER -> Raised(exc)

\* the spec _clean_args inspects: the business function of a plain operation,
\* the bound_method wrapper of an action
CleanSpec(ctrl, name) ==
    IF name \in ActionNames(ctrl) THEN BoundMethodSpec ELSE FuncSpec(ctrl, name)

\* await handler(**args): the business method runs, may write the metadata of
\* its controller, and returns or raises
HandlerOutcome(args, result, md) ==
    /\ calls' = Append(calls, [method |-> handlerName, kwargs |-> args])
    /\ controller' = [controller EXCEPT !.metadata = md]
    /\ IF result.t = "raise"
       THEN /\ tresp' = ClassifyException(result.v)
            /\ pc' = "return"
            /\ data' = result
       ELSE /\ data' = result
            /\ pc' = "encode"
            /\ UNCHANGED tresp

\* an exception raised before the business method runs (by _clean_args, or
\* by the call when the arguments do not fit the signature) is handled by
\* the same except clause
CleanFailed(exc) ==
    /\ tresp' = ClassifyException(exc)
    /\ pc' = "return"
    /\ data' = PyRaise(exc)
    /\ UNCHANGED <<calls, controller, storage>>

\* keyword arguments the business function cannot take: names outside its
\* signature when it declares no **catch-all
UnexpectedKeywords(spec, args) ==
    IF spec.varkw THEN {} ELSE DOMAIN args \ spec.args

\* the business method of an arbitrary controller: any result, any metadata;
\* the call raises TypeError on an unexpected keyword argument
InvokeHandler(args) ==
    IF UnexpectedKeywords(FuncSpec(req.view.Controller, handlerName), args) # {}
    THEN CleanFailed("TypeError")
    ELSE \E result \in HandlerResults, md \in MetadataWrites :
            /\ HandlerOutcome(args, result, md)
            /\ UNCHANGED storage

\* SingleResourceAsyncHttpTransport.transport: argument cleaning and the call
SingleTransportCall ==
    /\ pc = "call"
    /\ req.view.engine = "single"
    /\ LET ctrl == req.view.Controller
           pkname == ResourcePk(HandlerResource(ctrl, handlerName))
           extra == _clean_args(CleanSpec(ctrl, handlerName), _extra_params(req))
       IN  IF extra.exc # ""
           THEN CleanFailed(extra.exc)
           ELSE InvokeHandler(DictOr(DictPop(extra.ret, pkname), kwargs))
    /\ UNCHANGED <<req, handlerName, kwargs, perm, resp>>
    /\ UNCHANGED <<concVars, docVars>>

\* ManyResourceAsyncHttpTransport.transport: argument cleaning and the call
ManyTransportCall ==
    /\ pc = "call"
    /\ req.view.engine = "many"
    /\ LET ctrl == req.view.Controller
           cleaned == _clean_args(CleanSpec(ctrl, handlerName),
                                  DictOr(_extra_params(req), kwargs))
       IN  IF cleaned.exc # ""
           THEN CleanFailed(cleaned.exc)
           ELSE InvokeHandler(cleaned.ret)
    /\ UNCHANGED <<req, handlerName, kwargs, perm, resp>>
    /\ UNCHANGED <<concVars, docVars>>

\* mutant: the metadata is not consulted
ApplyMetadataSkipped(r, md, with_total) == r

\* the header overrides taken from self.controller.metadata
ApplyMetadata(r, md, with_total) ==
    [r EXCEPT !.headers =
        [xtotal |-> IF with_total /\ ~IsNone(md.total_count) /\ md.total_count[1] # 0
                    THEN md.total_count ELSE r.headers.xtotal,
         ctype |-> IF ~IsNone(md.content_type) /\ md.content_type[1] # ""
                   THEN md.content_type ELSE r.headers.ctype,
         cdisp |-> IF ~IsNone(md.content_name) /\ md.content_name[1] # ""
                   THEN md.content_name ELSE r.headers.cdisp]]

\* the response built from the business result, None excluded
EncodeData(d) == IF d.t = "response" THEN d.v ELSE JsonResponse(d)

\* mutant: an empty list counts as no result
EncodeResultFalsyIs404(d, md, with_total) ==
    IF d.t # "None" /\ ~(d.t = "list" /\ Len(d.v) = 0)
    THEN ApplyMetadata(EncodeData(d), md, with_total)
    ELSE Raised("Http404")

\* if data is not None: ... return resp / else: raise Http404
EncodeResult(d, md, with_total) ==
    IF d.t # "None"
    THEN ApplyMetadata(EncodeData(d), md, with_total)
    ELSE Raised("Http404")

\* SingleResourceAsyncHttpTransport.transport: encoding of the result
SingleTransportEncode ==
    /\ pc = "encode"
    /\ req.view.engine = "single"
    /\ tresp' = EncodeResult(data, controller.metadata, FALSE)
    /\ pc' = "return"
    /\ UNCHANGED <<req, controller, handlerName, kwargs, perm, calls, data, resp>>
    /\ UNCHANGED <<storage, concVars, docVars>>

\* ManyResourceAsyncHttpTransport.transport: encoding of the result
ManyTransportEncode ==
    /\ pc = "encode"
    /\ req.view.engine = "many"
    /\ tresp' = EncodeResult(data, controller.metadata, TRUE)
    /\ pc' = "return"
    /\ UNCHANGED <<req, controller, handlerName, kwargs, perm, calls, data, resp>>
    /\ UNCHANGED <<storage, concVars, docVars>>

\* the verb handler returns; an exception of transport passes through it
HandlerReturn ==
    /\ pc = "return"
    /\ resp' = IF tresp.exc # "" THEN tresp ELSE VerbStatus(req.method, tresp)
    /\ pc' = "done"
    /\ UNCHANGED <<req, controller, handlerName, kwargs, perm, calls, data, tresp>>
    /\ UNCHANGED <<storage, concVars, docVars>>

\* the response is handed to the substrate; the view instance, its controller
\* and the request are dropped
Respond ==
    /\ pc = "done"
    /\ pc' = "idle"
    /\ req' = NoRequest
    /\ controller' = NoController
    /\ handlerName' = ""
    /\ kwargs' = EmptyDict
    /\ perm' = NoPermission
    /\ calls' = <<>>
    /\ data' = NoData
    /\ tresp' = NoResponse
    /\ resp' = NoResponse
    /\ UNCHANGED <<storage, concVars, docVars>>

Next ==
    \/ Receive
    \/ dispatch
    \/ get
    \/ post
    \/ put
    \/ delete
    \/ SingleTransportPk
    \/ CheckPermission
    \/ SingleTransportCall
    \/ ManyTransportCall
    \/ SingleTransportEncode
    \/ ManyTransportEncode
    \/ HandlerReturn
    \/ Respond

Spec == Init /\ [][Next]_vars

-----------------------------------------------------------------------------
\* check_permission on longer PERMISSIONS / THROTTLERS lists: a GET request on
\* the collection view of SampleController has reached transport

PermInit ==
    /\ pc = "transport"
    /\ \E ps \in SeqsOf(BOOLEAN, 0, MaxChecks), ts \in SeqsOf(BOOLEAN, 0, MaxChecks) :
          req = [view |-> create_type_for("many", "SampleController", None),
                 method |-> "GET", content_type |-> "text/plain",
                 body |-> RequestBody("empty", FALSE, <<>>), pk |-> <<>>,
                 GET |-> EmptyDict, perms |-> ps, throttles |-> ts]
    /\ controller = [NewController("SampleController") EXCEPT !.method = "GET"]
    /\ handlerName = "get_many"
    /\ kwargs = EmptyDict
    /\ perm = NoPermission
    /\ calls = <<>>
    /\ data = NoData
    /\ tresp = NoResponse
    /\ resp = NoResponse
    /\ storage = InitialStorage
    /\ heap = <<>>
    /\ tasks = NoTasks
    /\ routes = <<>>
    /\ docs = <<>>
    /\ routers = NoRoutes
    /\ history = NoHistory
    /\ swaggers = <<>>
    /\ generator = None
    /\ served = <<>>

PermNext == CheckPermission

SpecPerm == PermInit /\ [][PermNext]_vars

-----------------------------------------------------------------------------
\* SampleController: the business methods on the storage of the class. A
\* stored sample is the model instance PyModel(id)

StorageKeys(st) == {st[i] : i \in 1..Len(st)}

\* max(self.storage.keys()) of a non-empty storage
MaxKey(st) == CHOOSE m \in StorageKeys(st) : \A k \in StorageKeys(st) : k <= m

\* del self.storage[pk]
StorageDel(st, k) == SelectSeq(st, LAMBDA x : x # k)

\* what a call leaves behind: the value returned or the exception raised,
\* the metadata of the controller and the storage
Outcome(result, md, st) == [result |-> result, metadata |-> md, storage |-> st]

\* SampleController.get_one
get_one(st, md, pk) ==
    Outcome(IF pk.t = "int" /\ pk.v \in StorageKeys(st) THEN PyModel(pk.v) ELSE PyNone, md, st)

\* SampleController.create_one: max() of an empty storage raises ValueError
create_one(st, md, d) ==
    IF StorageKeys(st) = {}
    THEN Outcome(PyRaise("ValueError"), md, st)
    ELSE LET new_id == MaxKey(st) + 1
         IN  Outcome(PyModel(new_id), md, Append(st, new_id))

\* SampleController.create_many: create_one for each record, in order
RECURSIVE create_many(_, _, _, _)
create_many(st, md, recs, res) ==
    IF Len(recs) = 0 THEN Outcome(PyList(res), md, st)
    ELSE LET o == create_one(st, md, Head(recs))
         IN  IF o.result.t = "raise" THEN o
             ELSE create_many(o.storage, md, Tail(recs), Append(res, o.result))

\* SampleController.update_one
update_one(st, md, pk, d) ==
    Outcome(IF pk.t = "int" /\ pk.v \in StorageKeys(st) THEN PyModel(pk.v) ELSE PyNone, md, st)

\* SampleController.delete_one
delete_one(st, md, pk) ==
    IF pk.t = "int" /\ pk.v \in StorageKeys(st)
    THEN Outcome(PyModel(pk.v), md, StorageDel(st, pk.v))
    ELSE Outcome(PyNone, md, st)

\* SampleController.get_many: every stored sample, and their number as total count
get_many(st, md) ==
    Outcome(PyList([i \in 1..Len(st) |-> PyModel(st[i])]),
            [md EXCEPT !.total_count = Some(Len(st))], st)

\* SampleController.delete_many: delete_one(int(pk)) for each pk of id
RECURSIVE DeleteEach(_, _, _, _)
DeleteEach(st, md, ids, ret) ==
    IF Len(ids) = 0 THEN Outcome(PyList(ret), md, st)
    ELSE LET c == Construct("int", Head(ids))
         IN  IF c.exc # "" THEN Outcome(PyRaise(c.exc), md, st)
             ELSE LET o == delete_one(st, md, c.v)
                  IN  DeleteEach(o.storage, md, Tail(ids),
                                 IF o.result.t = "None" THEN ret ELSE Append(ret, o.result))

delete_many(st, md, id) ==
    IF id.t = "list" /\ Len(id.v) > 0 THEN DeleteEach(st, md, id.v, <<>>)
    ELSE Outcome(PyList(<<>>), md, st)

\* the call handler(**args) on SampleController; a parameter with a default
\* that the request does not supply is None
Arg(args, name) == IF name \in DOMAIN args THEN args[name] ELSE PyNone

SampleControllerCall(name, args, st, md) ==
    CASE name = "get_one" -> get_one(st, md, args["pk"])
      [] name = "create_one" -> create_one(st, md, args["data"])
      [] name = "create_many" -> create_many(st, md, args["data"].v, <<>>)
      [] name = "update_one" -> update_one(st, md, args["pk"], args["data"])
      [] name = "delete_one" -> delete_one(st, md, args["pk"])
      [] name = "get_many" -> get_many(st, md)
      [] name = "delete_many" -> delete_many(st, md, Arg(args, "id"))

\* await handler(**args) with SampleController's own business methods
SampleInvoke(args) ==
    LET o == SampleControllerCall(handlerName, args, storage, controller.metadata)
    IN  /\ HandlerOutcome(args, o.result, o.metadata)
        /\ storage' = o.storage

\* SingleResourceAsyncHttpTransport.transport on SampleController
SampleSingleTransportCall ==
    /\ pc = "call"
    /\ req.view.engine = "single"
    /\ LET ctrl == req.view.Controller
           pkname == ResourcePk(HandlerResource(ctrl, handlerName))
           extra == _clean_args(CleanSpec(ctrl, handlerName), _extra_params(req))
       IN  IF extra.exc # ""
           THEN CleanFailed(extra.exc)
           ELSE SampleInvoke(DictOr(DictPop(extra.ret, pkname), kwargs))
    /\ UNCHANGED <<req, handlerName, kwargs, perm, resp>>
    /\ UNCHANGED <<concVars, docVars>>

\* ManyResourceAsyncHttpTransport.transport on SampleController
SampleManyTransportCall ==
    /\ pc = "call"
    /\ req.view.engine = "many"
    /\ LET ctrl == req.view.Controller
           cleaned == _clean_args(CleanSpec(ctrl, handlerName),
                                  DictOr(_extra_params(req), kwargs))
       IN  IF cleaned.exc # ""
           THEN CleanFailed(cleaned.exc)
           ELSE SampleInvoke(cleaned.ret)
    /\ UNCHANGED <<req, handlerName, kwargs, perm, resp>>
    /\ UNCHANGED <<concVars, docVars>>

\* path segments naming a sample
SampleSegments == {<<DigitChar(i)>> : i \in 1..MaxId}

\* query strings of the sample requests: none, ?limit=7, ?id=.. once or twice
SampleQueries(method, engine) ==
    IF method = "DELETE" /\ engine = "many"
    THEN {EmptyDict}
         \cup {"id" :> PyList([i \in 1..Len(ids) |-> PyStr(ids[i])]) :
                 ids \in SeqsOf(SampleSegments, 1, 2)}
    ELSE IF method = "GET" THEN Queries
    ELSE {EmptyDict}

\* bodies of the sample requests: a Create object, an array of them
SampleBodies(method) ==
    IF method \in {"POST", "PUT"}
    THEN {RequestBody("object", TRUE, <<>>)}
         \cup {RequestBody("array", TRUE, items) : items \in SeqsOf({TRUE}, 0, MaxArrayLen)}
    ELSE {RequestBody("empty", FALSE, <<>>)}

\* identities the request would have create_one assign
NewIds(st, body) ==
    IF StorageKeys(st) = {} THEN {}
    ELSE (MaxKey(st) + 1)..(MaxKey(st) + (IF body.kind = "array" THEN Len(body.items) ELSE 1))

\* a request to one of the two baseline routes of SampleController arrives
SampleReceive ==
    /\ pc = "idle"
    /\ \E engine \in {"single", "many"}, method \in {"GET", "POST", "PUT", "DELETE"} :
         \E body \in SampleBodies(method), q \in SampleQueries(method, engine),
            seg \in (IF engine = "single" THEN SampleSegments ELSE {<<>>}) :
            /\ method = "POST" => \A n \in NewIds(storage, body) : n <= MaxId
            /\ req' = [view |-> create_type_for(engine, "SampleController", None),
                       method |-> method, content_type |-> "application/json",
                       body |-> body, pk |-> seg, GET |-> q,
                       perms |-> <<>>, throttles |-> <<>>]
    /\ pc' = "dispatch"
    /\ controller' = NoController
    /\ handlerName' = ""
    /\ kwargs' = EmptyDict
    /\ perm' = NoPermission
    /\ calls' = <<>>
    /\ data' = NoData
    /\ tresp' = NoResponse
    /\ resp' = NoResponse
    /\ UNCHANGED <<storage, concVars, docVars>>

\* the response is sent; the storage of the class stays
SampleNext ==
    \/ SampleReceive
    \/ dispatch
    \/ get
    \/ post
    \/ put
    \/ delete
    \/ SingleTransportPk
    \/ CheckPermission
    \/ SampleSingleTransportCall
    \/ SampleManyTransportCall
    \/ SingleTransportEncode
    \/ ManyTransportEncode
    \/ HandlerReturn
    \/ Respond

SpecSample == Init /\ [][SampleNext]_vars

-----------------------------------------------------------------------------
\* Requests with query strings, to the routes of SampleController and of
\* BulkController

ArgsViews == RegisterViews("SampleController") \cup RegisterViews("BulkController")

\* the values a query string gives one name: one to MaxValues strings
ArgsValues == {PyList(xs) : xs \in SeqsOf({PyStr(<<c>>) : c \in Chars}, 1, MaxValues)}

\* request.GET: empty, or one of the names limit and foo with its values
ArgsQueries == {EmptyDict} \cup {n :> v : n \in {"limit", "foo"}, v \in ArgsValues}

ArgsBodies(method) ==
    IF method \in {"POST", "PUT"} THEN {RequestBody("object", TRUE, <<>>)}
    ELSE {RequestBody("empty", FALSE, <<>>)}

\* a permitted request with a well-formed body arrives at one of the routes
ArgsReceive ==
    /\ pc = "idle"
    /\ \E view \in ArgsViews, method \in {"GET", "POST", "PUT", "DELETE"}, q \in ArgsQueries :
         \E body \in ArgsBodies(method),
            seg \in (IF view.engine = "single" THEN {<<"7">>} ELSE {<<>>}) :
            req' = [view |-> view, method |-> method, content_type |-> "application/json",
                    body |-> body, pk |-> seg, GET |-> q,
                    perms |-> <<>>, throttles |-> <<>>]
    /\ pc' = "dispatch"
    /\ controller' = NoController
    /\ handlerName' = ""
    /\ kwargs' = EmptyDict
    /\ perm' = NoPermission
    /\ calls' = <<>>
    /\ data' = NoData
    /\ tresp' = NoResponse
    /\ resp' = NoResponse
    /\ UNCHANGED <<storage, concVars, docVars>>

ArgsNext ==
    \/ ArgsReceive
    \/ dispatch
    \/ get
    \/ post
    \/ put
    \/ delete
    \/ SingleTransportPk
    \/ CheckPermission
    \/ SingleTransportCall
    \/ ManyTransportCall
    \/ SingleTransportEncode
    \/ ManyTransportEncode
    \/ HandlerReturn
    \/ Respond

SpecArgs == Init /\ [][ArgsNext]_vars

-----------------------------------------------------------------------------
\* Concurrent requests: each request is a coroutine that may be suspended at
\* every await; objects live on a heap and are named by their index

HeapObject(kind, by, ctrl, context, md) ==
    [kind |-> kind, by |-> by, controller |-> ctrl, context |-> context, metadata |-> md]

\* mutant: one view instance is created per endpoint and reused by every request
as_view_shared(h, r) ==
    IF \E i \in 1..Len(h) : h[i].kind = "view"
    THEN [heap |-> h, self |-> CHOOSE i \in 1..Len(h) : h[i].kind = "view"]
    ELSE [heap |-> Append(h, HeapObject("view", r, 0, 0, NoMetadata)), self |-> Len(h) + 1]

\* the callable as_view() returns creates a view instance for request r;
\* __init__ sets its controller to None
as_view(h, r) ==
    [heap |-> Append(h, HeapObject("view", r, 0, 0, NoMetadata)), self |-> Len(h) + 1]

\* the endpoints the concurrent GET requests address
ConcViews == {v \in RegisterViews("SampleController") : v.engine = "many"}

\* what the business method of a concurrent request writes to self.metadata
ConcWrites == {md \in MetadataWrites : IsNone(md.content_name)}

\* request r arrives at an endpoint
ConcReceive ==
    /\ \E r \in 1..MaxRequests, view \in ConcViews :
          /\ tasks[r].pc = "new"
          /\ LET a == as_view(heap, r)
             IN  /\ heap' = a.heap
                 /\ tasks' = [tasks EXCEPT ![r] = [@ EXCEPT !.pc = "dispatch",
                                                           !.view = view, !.self = a.self]]
    /\ UNCHANGED <<pc, req, controller, handlerName, kwargs, perm, calls, data, tresp,
                   resp, storage, docVars>>

\* dispatch of request r: a Context and a Controller are created and the
\* controller is stored in the view instance; a plain operation is looked up
\* on that controller, an action stays the unbound MethodMapping
ConcDispatch ==
    /\ \E r \in 1..MaxRequests :
          /\ tasks[r].pc = "dispatch"
          /\ LET t == tasks[r]
                 context == Len(heap) + 1
                 ctrl == Len(heap) + 2
                 name == t.view.METHOD_MAP["get"]
             IN  /\ heap' = [heap EXCEPT ![t.self].controller = ctrl]
                             \o <<HeapObject("context", r, 0, 0, NoMetadata),
                                  HeapObject("controller", r, 0, context,
                                             NewController(t.view.Controller).metadata)>>
                 /\ tasks' = [tasks EXCEPT ![r] =
                        [@ EXCEPT !.pc = "transport",
                                  !.bound_to = IF name \in ActionNames(t.view.Controller)
                                               THEN 0 ELSE ctrl]]
    /\ UNCHANGED <<pc, req, controller, handlerName, kwargs, perm, calls, data, tresp,
                   resp, storage, docVars>>

\* transport of request r up to the call: the permission check passes, an
\* action is bound to self.controller
ConcTransport ==
    /\ \E r \in 1..MaxRequests :
          /\ tasks[r].pc = "transport"
          /\ tasks' = [tasks EXCEPT ![r] =
                 [@ EXCEPT !.pc = "call",
                           !.bound_to = IF @ = 0 THEN heap[tasks[r].self].controller ELSE @]]
    /\ UNCHANGED <<pc, req, controller, handlerName, kwargs, perm, calls, data, tresp,
                   resp, storage, heap, docVars>>

\* the business method of request r writes the metadata of the controller it
\* is bound to
ConcCall ==
    /\ \E r \in 1..MaxRequests, md \in ConcWrites :
          /\ tasks[r].pc = "call"
          /\ heap' = [heap EXCEPT ![tasks[r].bound_to].metadata = md]
          /\ tasks' = [tasks EXCEPT ![r] = [@ EXCEPT !.pc = "encode", !.wrote = md]]
    /\ UNCHANGED <<pc, req, controller, handlerName, kwargs, perm, calls, data, tresp,
                   resp, storage, docVars>>

\* transport of request r after the call: the result is encoded with the
\* header overrides of self.controller.metadata
ConcEncode ==
    /\ \E r \in 1..MaxRequests :
          /\ tasks[r].pc = "encode"
          /\ LET md == heap[heap[tasks[r].self].controller].metadata
                 out == EncodeResult(PyList(<<>>), md, tasks[r].view.engine = "many")
             IN  tasks' = [tasks EXCEPT ![r] = [@ EXCEPT !.pc = "done",
                                                          !.headers = out.headers]]
    /\ UNCHANGED <<pc, req, controller, handlerName, kwargs, perm, calls, data, tresp,
                   resp, storage, heap, docVars>>

ConcNext ==
    \/ ConcReceive
    \/ ConcDispatch
    \/ ConcTransport
    \/ ConcCall
    \/ ConcEncode

SpecConc == Init /\ [][ConcNext]_vars

-----------------------------------------------------------------------------
\* HttpRouter: the route table. A route is the sequence of its path segments,
\* a route name the sequence of its parts joined by '-'

\* a Python dict in insertion order: a sequence of entries [k, v]
DictHas(d, k) == \E i \in 1..Len(d) : d[i].k = k
DictIdx(d, k) == CHOOSE i \in 1..Len(d) : d[i].k = k
DictGet(d, k) == d[DictIdx(d, k)].v

\* d[k] = v: a new key is added at the end, a known key keeps its place
DictSet(d, k, v) ==
    IF DictHas(d, k) THEN [d EXCEPT ![DictIdx(d, k)].v = v]
    ELSE Append(d, [k |-> k, v |-> v])

\* a sequence given by a rule, as the tuple of its elements
Tuple(seq) == SelectSeq(seq, LAMBDA x : TRUE)

\* the n-th smallest element of a set of indices
NthOf(S, n) == CHOOSE i \in S : Cardinality({j \in S : j < i}) = n - 1

\* the dict a sequence of assignments d[k] = v builds: each key at the place
\* of its first assignment, with the value of its last
DictOf(entries) ==
    LET firsts == {i \in 1..Len(entries) : \A j \in 1..(i - 1) : entries[j].k # entries[i].k}
        last(k) == CHOOSE i \in 1..Len(entries) :
                      entries[i].k = k /\ \A j \in (i + 1)..Len(entries) : entries[j].k # k
    IN  Tuple([n \in 1..Cardinality(firsts) |->
                  [k |-> entries[NthOf(firsts, n)].k,
                   v |-> entries[last(entries[NthOf(firsts, n)].k)].v]])

\* the concatenation of a sequence of sequences
Flatten(ss) ==
    LET parts == Tuple(ss)
        \* end[i + 1]: the number of elements of the first i parts
        end == Tuple([i \in 1..(Len(parts) + 1) |->
                        Cardinality(UNION {{<<a, b>> : b \in 1..Len(parts[a])} :
                                              a \in 1..(i - 1)})])
    IN  Tuple([n \in 1..end[Len(parts) + 1] |->
                  LET i == CHOOSE i \in 1..Len(parts) : end[i] < n /\ n <= end[i + 1]
                  IN  parts[i][n - end[i]]])

PathConfig(route, view, name) == [route |-> route, view |-> view, name |-> name]

\* the path segment f'<{pk}>' of retrieve_pk_url
RetrievePkUrl(pk) == "<" \o pk \o ">"

\* the MethodMapping attributes in the order of dir(controller)
Mappings(ctrl) ==
    CASE ctrl = "SampleController" ->
            <<"action_alter_resource", "action_detail", "action_detail_all_methods",
              "action_detail_many">>
      [] ctrl = "BulkController" -> <<"bulk">>
      [] OTHER -> <<>>

\* the route register() appends for one action
ActionRoute(base_url, url, ctrl, func_name) ==
    LET act_map == ActionOf(ctrl, func_name)
        pk == ResourcePk(ControllerResource(ctrl))
    IN  IF act_map.detail
        THEN PathConfig(base_url \o <<url, RetrievePkUrl(pk), act_map.url_path>>,
                        create_type_for("single", ctrl, Some(build_methods_map(act_map))),
                        <<url, "retrieve", func_name>>)
        ELSE PathConfig(base_url \o <<url, act_map.url_path>>,
                        create_type_for("many", ctrl, Some(build_methods_map(act_map))),
                        <<url, "many", func_name>>)

\* mutant: the two basic routes are appended before the action routes
register_basic_first(rts, base_url, url, ctrl) ==
    LET pk == ResourcePk(ControllerResource(ctrl))
        mappings == Mappings(ctrl)
    IN  rts
        \o <<PathConfig(base_url \o <<url, RetrievePkUrl(pk)>>,
                        create_type_for("single", ctrl, None), <<url, "retrieve">>),
             PathConfig(base_url \o <<url>>,
                        create_type_for("many", ctrl, None), <<url, "many">>)>>
        \o [i \in 1..Len(mappings) |-> ActionRoute(base_url, url, ctrl, mappings[i])]

\* HttpRouter.register(url, controller): the action routes, then the two
\* basic routes
register(rts, base_url, url, ctrl) ==
    LET pk == ResourcePk(ControllerResource(ctrl))
        mappings == Mappings(ctrl)
    IN  rts
        \o [i \in 1..Len(mappings) |-> ActionRoute(base_url, url, ctrl, mappings[i])]
        \o <<PathConfig(base_url \o <<url, RetrievePkUrl(pk)>>,
                        create_type_for("single", ctrl, None), <<url, "retrieve">>),
             PathConfig(base_url \o <<url>>,
                        create_type_for("many", ctrl, None), <<url, "many">>)>>

\* HttpRouter.append(router): a copy of each route of the other router, its
\* path and its name prefixed with the base url of this one
append(rts, base_url, sub_routes) ==
    rts \o Tuple([i \in 1..Len(sub_routes) |->
                    PathConfig(base_url \o sub_routes[i].route, sub_routes[i].view,
                               base_url \o sub_routes[i].name)])

-----------------------------------------------------------------------------
\* OpenAPIGenerator

\* type hints: a schema class of a resource, Optional or List of one, int, Any
Ty(k, res, kind) == [k |-> k, res |-> res, kind |-> kind]
TInt == Ty("int", "", "")
TAny == Ty("any", "", "")
TOther == Ty("other", "", "")
TModel(res, kind) == Ty("model", res, kind)
TOptional(res, kind) == Ty("optional", res, kind)
TList(res, kind) == Ty("list", res, kind)
TListInt == Ty("list-int", "", "")

Hint(name, ty) == [name |-> name, ty |-> ty]

\* handler.__annotations__ of the attribute getattr(controller, name): the
\* hints of the function, or the field annotations of MethodMapping for an
\* action
Annotations(ctrl, name) ==
    LET R == ControllerResource(ctrl)
    IN  CASE name \in ActionNames(ctrl) ->
                <<Hint("methods", TOther), Hint("detail", TOther), Hint("url_path", TOther),
                  Hint("func", TOther), Hint("resource", TOther)>>
          [] name = "get_one" /\ ctrl = "SampleController" ->
                <<Hint("pk", TInt), Hint("return", TOptional(R, "Retrieve"))>>
          [] name = "get_one" /\ ctrl = "BulkController" ->
                <<Hint("pk", TInt), Hint("return", TOptional("BaseResource", "Retrieve"))>>
          [] name = "get_many" /\ ctrl = "BulkController" ->
                <<Hint("limit", TInt), Hint("return", TList("BaseResource", "Retrieve"))>>
          [] name = "get_one" ->
                <<Hint("pk", TAny), Hint("return", TOptional("BaseResource", "Retrieve"))>>
          [] name = "get_many" /\ ctrl = "SampleController" ->
                <<Hint("order_by", TAny), Hint("limit", TInt), Hint("offset", TAny),
                  Hint("return", TList(R, "Retrieve"))>>
          [] name = "get_many" ->
                <<Hint("order_by", TAny), Hint("limit", TInt), Hint("offset", TInt),
                  Hint("return", TList("BaseResource", "Retrieve"))>>
          [] name = "create_one" /\ ctrl = "SampleController" ->
                <<Hint("data", TModel(R, "Create")), Hint("return", TModel(R, "Retrieve"))>>
          [] name = "create_one" ->
                <<Hint("data", TModel("BaseResource", "Create")),
                  Hint("return", TModel("BaseResource", "Retrieve"))>>
          [] name = "create_many" ->
                <<Hint("data", TList("BaseResource", "Create")),
                  Hint("return", TList("BaseResource", "Retrieve"))>>
          [] name = "update_one" ->
                <<Hint("pk", TInt), Hint("data", TModel(R, "Update")),
                  Hint("return", TOptional(R, "Retrieve"))>>
          [] name = "delete_one" ->
                <<Hint("pk", TAny), Hint("return", TOptional("BaseResource", "Retrieve"))>>
          [] name = "delete_many" ->
                <<Hint("id", TListInt), Hint("return", TList("BaseResource", "Retrieve"))>>
          [] OTHER -> <<>>

\* a schema class: Create, Update or Retrieve of a resource
Model(res, kind) == [res |-> res, kind |-> kind]

\* _model_ref_name: model.__name__, the name of the class without its resource
_model_ref_name(model) == model.kind

\* OpenAPI schemas, as far as they are told apart here: their shape and the
\* component they refer to
Schema(shape, ref) == [shape |-> shape, ref |-> ref]

_schema_from_type(t) ==
    CASE t.k = "any" -> Schema("empty", "")
      [] t.k = "model" -> Schema("ref", _model_ref_name(Model(t.res, t.kind)))
      [] t.k = "optional" -> Schema("nullable-allOf", _model_ref_name(Model(t.res, t.kind)))
      [] t.k = "list" -> Schema("array", _model_ref_name(Model(t.res, t.kind)))
      [] t.k = "list-int" -> Schema("array-integer", "")
      [] t.k = "int" -> Schema("integer", "")
      [] OTHER -> Schema("string", "")

\* model.model_json_schema(): the schema generated from the fields of model
model_json_schema(model) == [title |-> model.kind, of |-> model]

\* _pydantic_components: schemas[name] = js for each model, in order
_pydantic_components(models) ==
    DictOf(Tuple([i \in 1..Len(models) |->
                    [k |-> _model_ref_name(models[i]), v |-> model_json_schema(models[i])]]))

_Operation(method, ctrl, handler_name, resource, detail) ==
    [method |-> method, controller |-> ctrl, handler_name |-> handler_name,
     resource |-> resource, detail |-> detail]

Upper(verb) ==
    CASE verb = "get" -> "GET" [] verb = "post" -> "POST" [] verb = "put" -> "PUT"
      [] verb = "delete" -> "DELETE" [] verb = "patch" -> "PATCH"
      [] OTHER -> ""

\* METHOD_MAP.items() of a view class, in insertion order
MethodsMapItems(methods, func_name) ==
    DictOf(Tuple([i \in 1..Len(methods) |-> [k |-> Lower(methods[i]), v |-> func_name]]))

MethodMapItems(view) ==
    IF view.METHOD_MAP = SingleMethodMap
    THEN <<[k |-> "get", v |-> "get_one"], [k |-> "put", v |-> "update_one"],
           [k |-> "delete", v |-> "delete_one"]>>
    ELSE IF view.METHOD_MAP = ManyMethodMap
    THEN <<[k |-> "get", v |-> "get_many"], [k |-> "put", v |-> "update_many"],
           [k |-> "delete", v |-> "delete_many"]>>
    ELSE LET func_name == view.METHOD_MAP[CHOOSE verb \in DOMAIN view.METHOD_MAP : TRUE]
         IN  MethodsMapItems(ActionOf(view.Controller, func_name).methods, func_name)

_is_detail_route(route, pk) == \E i \in 1..Len(route) : route[i] = RetrievePkUrl(pk)

_is_many_route(route, pk) == ~(\E i \in 1..Len(route) : route[i] = RetrievePkUrl(pk))

\* hasattr(controller, "create_one") or hasattr(controller, "create_many")
HasCreate(ctrl) == "create_one" \in Dir(ctrl) \/ "create_many" \in Dir(ctrl)

\* the operations _collect_operations appends for one route
RouteOperations(r) ==
    LET ctrl == r.view.Controller
        resource == ControllerResource(ctrl)
        items == MethodMapItems(r.view)
    IN  [i \in 1..Len(items) |->
            _Operation(Upper(items[i].k), ctrl, items[i].v, resource,
                       _is_detail_route(r.route, ResourcePk(resource)))]
        \o (IF _is_many_route(r.route, ResourcePk(resource)) /\ HasCreate(ctrl)
            THEN <<_Operation("POST", ctrl, "create_one", resource, FALSE)>>
            ELSE <<>>)

\* OpenAPIGenerator._collect_operations: the operations of all routes, then
\* uniq[key] = op
_collect_operations(rts) ==
    LET ops == Flatten([i \in 1..Len(rts) |-> RouteOperations(rts[i])])
        uniq == DictOf(Tuple([i \in 1..Len(ops) |->
                                [k |-> <<ops[i].method, ops[i].controller,
                                         ops[i].handler_name, ops[i].detail>>,
                                 v |-> ops[i]]]))
    IN  Tuple([i \in 1..Len(uniq) |-> uniq[i].v])

\* OpenAPIGenerator._collect_models_from_type
_collect_models_from_type(t) ==
    IF t.k \in {"model", "optional", "list"} THEN <<Model(t.res, t.kind)>> ELSE <<>>

HintModels(hints) ==
    Flatten([i \in 1..Len(hints) |-> _collect_models_from_type(hints[i].ty)])

\* the models build() gathers for one operation
OperationModels(op) ==
    <<Model(op.resource, "Create"), Model(op.resource, "Update"),
      Model(op.resource, "Retrieve")>>
    \o (IF op.handler_name \in Dir(op.controller)
        THEN HintModels(Annotations(op.controller, op.handler_name)) ELSE <<>>)

AllModels(ops) == Flatten([i \in 1..Len(ops) |-> OperationModels(ops[i])])

\* OpenAPIGenerator._dedupe_models: the first occurrence of each class
_dedupe_models(models) ==
    LET firsts == {i \in 1..Len(models) : \A j \in 1..(i - 1) : models[j] # models[i]}
    IN  Tuple([n \in 1..Cardinality(firsts) |-> models[NthOf(firsts, n)]])

\* OpenAPIGenerator._build_request_body
_build_request_body(op) ==
    CASE op.method = "PUT" -> Schema("ref", _model_ref_name(Model(op.resource, "Update")))
      [] op.method = "POST" -> Schema("oneOf", _model_ref_name(Model(op.resource, "Create")))
      [] OTHER -> Schema("none", "")

\* OpenAPIGenerator._build_responses: the schema of the 200 response
_build_responses(op) ==
    LET hints == IF op.handler_name \in Dir(op.controller)
                 THEN Annotations(op.controller, op.handler_name) ELSE <<>>
        retref == _model_ref_name(Model(op.resource, "Retrieve"))
    IN  IF \E i \in 1..Len(hints) : hints[i].name = "return"
        THEN _schema_from_type(hints[CHOOSE i \in 1..Len(hints) : hints[i].name = "return"].ty)
        ELSE CASE op.method = "GET" /\ op.detail -> Schema("ref", retref)
               [] op.method = "GET" -> Schema("array", retref)
               [] op.method = "POST" -> Schema("oneOf", retref)
               [] op.method = "PUT" -> Schema("ref", retref)
               [] OTHER -> Schema("empty", "")

\* OpenAPIGenerator._build_operation
_build_operation(op) ==
    [summary |-> <<op.controller, op.handler_name>>, tags |-> <<op.controller>>,
     requestBody |-> _build_request_body(op), response |-> _build_responses(op)]

\* raw.replace(f"/<{pk}>", f"/{{{pk}}}")
PathOa(route, pk) ==
    [i \in 1..Len(route) |-> IF route[i] = RetrievePkUrl(pk) THEN "{" \o pk \o "}" ELSE route[i]]

\* the assignments by_path[path_oa][verb] = op of _build_paths for one route:
\* one per entry of the verb map, then the synthesized POST of a many route
RouteByPath(r) ==
    LET ctrl == r.view.Controller
        resource == ControllerResource(ctrl)
        pk == ResourcePk(resource)
        path_oa == PathOa(r.route, pk)
        items == MethodMapItems(r.view)
    IN  [i \in 1..Len(items) |->
            [path |-> path_oa, k |-> items[i].k,
             v |-> _Operation(Upper(items[i].k), ctrl, items[i].v, resource,
                              _is_detail_route(r.route, pk))]]
        \o (IF _is_many_route(r.route, pk) /\ HasCreate(ctrl)
            THEN <<[path |-> path_oa, k |-> "post",
                    v |-> _Operation("POST", ctrl, "create_one", resource, FALSE)]>>
            ELSE <<>>)

\* OpenAPIGenerator._build_paths
_build_paths(rts) ==
    LET sets == Flatten([i \in 1..Len(rts) |-> RouteByPath(rts[i])])
        by_path == DictOf(Tuple([i \in 1..Len(sets) |-> [k |-> sets[i].path, v |-> <<>>]]))
    IN  Tuple([i \in 1..Len(by_path) |->
                 LET item == DictOf(SelectSeq(sets, LAMBDA e : e.path = by_path[i].k))
                 IN  [k |-> by_path[i].k,
                      v |-> Tuple([j \in 1..Len(item) |->
                                     [k |-> item[j].k, v |-> _build_operation(item[j].v)]])]])

\* mutant: the generator adds a route for the document to the table it reads
build_registering_itself(rts) ==
    [doc |-> [paths |-> _build_paths(rts),
              components |-> _pydantic_components(
                                 _dedupe_models(AllModels(_collect_operations(rts))))],
     routes |-> Append(rts, PathConfig(<<"openapi.json">>,
                                       create_type_for("many", "BaseController", None),
                                       <<"openapi", "json">>))]

\* OpenAPIGenerator.build: the document, and the route table it leaves
build(rts) ==
    [doc |-> [paths |-> _build_paths(rts),
              components |-> _pydantic_components(
                                 _dedupe_models(AllModels(_collect_operations(rts))))],
     routes |-> rts]

\* number of register() calls that built the table
Registrations(rts) ==
    Cardinality({i \in 1..Len(rts) : Len(rts[i].name) = 2 /\ rts[i].name[2] = "many"})

Urls == {"sample", "alter"}

\* router.register(url, controller) on the router HttpRouter('api')
Register ==
    /\ Registrations(routes) < MaxRegistrations
    /\ \E url \in Urls, ctrl \in RouterControllers :
          routes' = register(routes, <<"api">>, url, ctrl)
    /\ UNCHANGED <<pc, req, controller, handlerName, kwargs, perm, calls, data, tresp,
                   resp, storage, concVars, docs, treeVars, swaggerVars>>

\* OpenAPIJsonView.get: the document is generated from the router
Build ==
    /\ Len(docs) < MaxBuilds
    /\ LET out == build(routes)
       IN  /\ docs' = Append(docs, [before |-> routes, after |-> out.routes, doc |-> out.doc])
           /\ routes' = out.routes
    /\ UNCHANGED <<pc, req, controller, handlerName, kwargs, perm, calls, data, tresp,
                   resp, storage, concVars, treeVars, swaggerVars>>

DocNext ==
    \/ Register
    \/ Build

SpecDoc == Init /\ [][DocNext]_vars

-----------------------------------------------------------------------------
\* Several routers: HttpRouter('api') registers controllers and takes in the
\* routes of HttpRouter('v1') and HttpRouter('v2')

\* the controllers an application registers: those with action routes
Registered == {"SampleController", "BulkController"}

\* the routers HttpRouter('api') may take in
SubRouters == {"v1", "v2"}

\* calls made so far on all routers
TotalCalls == Len(history["api"]) + Len(history["v1"]) + Len(history["v2"])

\* a call on a router and the number of routes it added
RouterCall(op, url, ctrl, sub, n) == [op |-> op, url |-> url, ctrl |-> ctrl, sub |-> sub, n |-> n]

\* router.register(url, controller) on one of the routers
RouterRegister ==
    /\ TotalCalls < MaxCalls
    /\ \E r \in RouterNames, url \in Urls, ctrl \in Registered :
          LET rts == register(routers[r], <<r>>, url, ctrl)
          IN  /\ routers' = [routers EXCEPT ![r] = rts]
              /\ history' = [history EXCEPT ![r] =
                                Append(@, RouterCall("register", url, ctrl, "",
                                                     Len(rts) - Len(routers[r])))]
    /\ UNCHANGED <<pc, req, controller, handlerName, kwargs, perm, calls, data, tresp,
                   resp, storage, concVars, routes, docs, swaggerVars>>

\* api.append(router) with one of the other routers
RouterAppend ==
    /\ TotalCalls < MaxCalls
    /\ \E sub \in SubRouters :
          LET rts == append(routers["api"], <<"api">>, routers[sub])
          IN  /\ routers' = [routers EXCEPT !["api"] = rts]
              /\ history' = [history EXCEPT !["api"] =
                                Append(@, RouterCall("append", "", "", sub,
                                                     Len(rts) - Len(routers["api"])))]
    /\ UNCHANGED <<pc, req, controller, handlerName, kwargs, perm, calls, data, tresp,
                   resp, storage, concVars, routes, docs, swaggerVars>>

RouterNext ==
    \/ RouterRegister
    \/ RouterAppend

SpecRouter == Init /\ [][RouterNext]_vars

-----------------------------------------------------------------------------
\* SwaggerRouter: documentation routers for the routers HttpRouter('v1') and
\* HttpRouter('v2'), whose route tables were built before

\* what an application did with a router before: nothing, or one register
Setups == {"none"} \cup Registered

SetupUrl(ctrl) == IF ctrl = "SampleController" THEN "sample" ELSE "alter"

\* the route tables are built; no SwaggerRouter exists
SwaggerInit ==
    /\ pc = "idle"
    /\ req = NoRequest
    /\ controller = NoController
    /\ handlerName = ""
    /\ kwargs = EmptyDict
    /\ perm = NoPermission
    /\ calls = <<>>
    /\ data = NoData
    /\ tresp = NoResponse
    /\ resp = NoResponse
    /\ storage = InitialStorage
    /\ heap = <<>>
    /\ tasks = NoTasks
    /\ routes = <<>>
    /\ docs = <<>>
    /\ \E setup \in [SubRouters -> Setups] :
          /\ routers = [r \in RouterNames |->
                          IF r \in SubRouters /\ setup[r] # "none"
                          THEN register(<<>>, <<r>>, SetupUrl(setup[r]), setup[r])
                          ELSE <<>>]
          /\ history = [r \in RouterNames |->
                          IF r \in SubRouters /\ setup[r] # "none"
                          THEN <<RouterCall("register", SetupUrl(setup[r]), setup[r], "",
                                            Len(Mappings(setup[r])) + 2)>>
                          ELSE <<>>]
    /\ swaggers = <<>>
    /\ generator = None
    /\ served = <<>>

\* SwaggerRouter(router)
NewSwaggerRouter ==
    /\ Len(swaggers) < MaxSwaggers
    /\ \E r \in SubRouters :
          swaggers' = Append(swaggers, [router |-> r, has_urls |-> FALSE])
    /\ UNCHANGED <<pc, req, controller, handlerName, kwargs, perm, calls, data, tresp,
                   resp, storage, concVars, routes, docs, treeVars, generator, served>>

\* SwaggerRouter.urls of the s-th SwaggerRouter: a generator for its router
\* is made and assigned to openapi_view.view_class.generator; view_class is
\* the class OpenAPIJsonView for the view of every SwaggerRouter
SwaggerUrls ==
    /\ \E s \in 1..Len(swaggers) :
          /\ generator' = Some(swaggers[s].router)
          /\ swaggers' = [swaggers EXCEPT ![s].has_urls = TRUE]
    /\ UNCHANGED <<pc, req, controller, handlerName, kwargs, perm, calls, data, tresp,
                   resp, storage, concVars, routes, docs, treeVars, served>>

\* OpenAPIJsonView.get through the openapi.json view of the s-th
\* SwaggerRouter: the view makes an instance of view_class, and
\* self.generator.build() finds the attribute of the class
OpenAPIGet ==
    /\ \E s \in 1..Len(swaggers) :
          /\ swaggers[s].has_urls
          /\ served' = <<[by |-> s, doc |-> build(routers[generator[1]]).doc]>>
    /\ UNCHANGED <<pc, req, controller, handlerName, kwargs, perm, calls, data, tresp,
                   resp, storage, concVars, routes, docs, treeVars, swaggers, generator>>

SwaggerNext ==
    \/ NewSwaggerRouter
    \/ SwaggerUrls
    \/ OpenAPIGet

SpecSwagger == SwaggerInit /\ [][SwaggerNext]_vars

-----------------------------------------------------------------------------
\* Properties

\* a request is over: the client has its response
Done == pc = "done"

\* the configured checks deny the request
Denied == ~check_permission(req.perms, req.throttles).ok

\* check_permission was called for the request and returned false
Refused == perm.checked /\ ~perm.ok

IsBaselineMany(view) == view.engine = "many" /\ view.METHOD_MAP = ManyMethodMap

\* the request has JSON content type and a body the validator accepts
BodyValid(request) ==
    /\ request.content_type = "application/json"
    /\ \/ request.body.kind = "object" /\ request.body.valid
       \/ request.body.kind = "array"
          /\ \A i \in 1..Len(request.body.items) : request.body.items[i]

\* C1: whenever the permission checks of a request deny it, the response is
\* 403, whatever else is wrong with the request (body, content type, identity
\* segment, verb, operation)
C1_DeniedAlways403 == (Done /\ Denied) => resp.status = 403

\* C2: when check_permission returned false the business method is never
\* invoked, no result is encoded, and the response is 403 with an empty body
C2_RefusedIs403Empty ==
    Refused =>
        /\ pc \in {"return", "done"}
        /\ calls = <<>>
        /\ data = NoData
        /\ tresp.status = 403 /\ tresp.body.kind = "empty"
        /\ Done => (resp.status = 403 /\ resp.body.kind = "empty" /\ resp.origin # "json")

C2_Witness ==
    /\ Done /\ Refused /\ resp.status = 403
    /\ req.method = "POST" /\ req.view.engine = "many"

\* C3: check_permission evaluates the permissions in list order, then the
\* throttles in list order, stops at the first failing check, answers false
\* then, and answers true iff every check of both lists succeeded
C3_PermissionOrder ==
    perm.checked =>
        LET np == Len(req.perms)
            outcomes == req.perms \o req.throttles
            order == [i \in 1..Len(outcomes) |->
                        IF i <= np THEN [kind |-> "permission", idx |-> i]
                        ELSE [kind |-> "throttle", idx |-> i - np]]
            n == Len(perm.log)
        IN  /\ n <= Len(outcomes)
            /\ perm.log = SubSeq(order, 1, n)
            /\ \A i \in 1..(n - 1) : outcomes[i]
            /\ perm.ok <=> (\A i \in 1..Len(outcomes) : outcomes[i])
            /\ perm.ok => n = Len(outcomes)
            /\ ~perm.ok => (n >= 1 /\ ~outcomes[n])
            /\ (\E i \in 1..np : ~req.perms[i]) =>
                   \A i \in 1..n : perm.log[i].kind = "permission"

C3_Witness ==
    /\ perm.checked /\ ~perm.ok
    /\ Len(req.perms) >= 2 /\ Len(req.throttles) >= 2
    /\ req.perms[1] /\ ~req.perms[2] /\ ~req.throttles[1]
    /\ Len(perm.log) = 2


\* C4: a POST to the baseline collection route of a controller implementing
\* create_one and create_many, with a JSON body the validator accepts and a
\* passing permission check, invokes exactly one business method: create_one
\* for an object body, create_many with a list as long as the array for an
\* array body of any length
C4Case ==
    /\ req.method = "POST" /\ IsBaselineMany(req.view)
    /\ {"create_one", "create_many"} \subseteq Dir(req.view.Controller)
    /\ BodyValid(req) /\ ~Denied

C4_PostBodyDispatch ==
    C4Case =>
        /\ Len(calls) <= 1
        /\ pc \in {"encode", "return", "done"} =>
              /\ Len(calls) = 1
              /\ "data" \in DOMAIN calls[1].kwargs
              /\ req.body.kind = "object" =>
                    /\ calls[1].method = "create_one"
                    /\ calls[1].kwargs["data"].t = "model"
              /\ req.body.kind = "array" =>
                    /\ calls[1].method = "create_many"
                    /\ calls[1].kwargs["data"].t = "list"
                    /\ Len(calls[1].kwargs["data"].v) = Len(req.body.items)

C4_Witness ==
    /\ Done /\ C4Case /\ req.body.kind = "array" /\ Len(req.body.items) = 1
    /\ Len(calls) = 1 /\ calls[1].method = "create_many"
    /\ DOMAIN req.GET # {}

\* the verb of the request has no entry in the verb map of the view, POST on a
\* baseline collection route excepted, or resolves to an operation the
\* controller does not implement
Unroutable(request) ==
    LET view == request.view
        verb == Lower(request.method)
    IN  IF request.method = "POST" /\ IsBaselineMany(view)
        THEN (IF request.body.kind = "array" THEN "create_many" ELSE "create_one")
                 \notin Dir(view.Controller)
        ELSE \/ verb \notin DOMAIN view.METHOD_MAP
             \/ view.METHOD_MAP[verb] \notin Dir(view.Controller)

\* C5: a request whose verb is not in the verb map of the addressed view, or
\* resolves to an unimplemented operation, yields 405 and invokes no business
\* method; an action route answers only its declared verbs. Stated for
\* requests whose content type and body are acceptable, where no 400 competes
C5_UnmappedVerbIs405 ==
    (Done /\ Unroutable(req) /\ (req.method = "POST" => BodyValid(req)))
        => (resp.status = 405 /\ calls = <<>>)

\* C6: in single-entity dispatch with an integer identity field, the business
\* method receives pk = int(segment), never the string; a segment that is no
\* integer never reaches the business method and, once the request has reached
\* the transport, is answered 404
C6Case ==
    /\ req.view.engine = "single"
    /\ handlerName # ""
    /\ PkFieldAnnotation(HandlerResource(req.view.Controller, handlerName)) = Some("int")

C6_IdentityCoercion ==
    C6Case =>
        /\ \A i \in 1..Len(calls) :
              /\ "pk" \in DOMAIN calls[i].kwargs
              /\ calls[i].kwargs["pk"].t = "int"
              /\ IsIntLiteral(req.pk)
              /\ calls[i].kwargs["pk"].v = StrToInt(req.pk)
        /\ ~IsIntLiteral(req.pk) =>
              /\ pc \notin {"permission", "call", "encode"}
              /\ pc = "return" => (tresp.exc = "Http404" /\ tresp.status = 404)
              /\ (Done /\ (req.method \in {"GET", "DELETE"} \/ BodyValid(req))) =>
                    (resp.status = 404 /\ resp.exc = "Http404")

C6_Witness ==
    /\ Done /\ C6Case /\ req.pk = <<"7", "7">>
    /\ Len(calls) = 1 /\ calls[1].kwargs["pk"] = PyInt(77)

\* C7 as claimed: a business method returning None or an empty list yields 404
\* and no success body
C7_EmptyResultIs404 ==
    (Done /\ (data.t = "None" \/ (data.t = "list" /\ Len(data.v) = 0)))
        => (resp.status = 404 /\ resp.origin # "json")

\* C7 amended: a business method returning None yields 404 and no success
\* body; an empty list is a result and is encoded as the empty JSON array
C7_NoneIs404 ==
    /\ (pc \in {"return", "done"} /\ data.t = "None") =>
          /\ tresp.status = 404 /\ tresp.exc = "Http404" /\ tresp.body.kind = "empty"
          /\ Done => (resp.status = 404 /\ resp.origin # "json" /\ resp.body.kind = "empty")
    /\ (Done /\ data.t = "list" /\ Len(data.v) = 0) =>
          /\ resp.status \in {200, 201, 204}
          /\ resp.body.kind = "json-array" /\ resp.body.items = <<>>

C7_Witness ==
    /\ Done /\ data.t = "None" /\ resp.status = 404
    /\ req.method = "DELETE" /\ req.view.engine = "many" /\ Len(calls) = 1

\* C8: an encoded result is sent with 200 on GET and PUT, 201 on POST and 204
\* on DELETE; a response that came back with another status than 200 keeps it
C8_VerbStatus ==
    Done =>
        /\ tresp.origin = "json" =>
              resp.status = CASE req.method = "POST" -> 201
                              [] req.method = "DELETE" -> 204
                              [] OTHER -> 200
        /\ (tresp.origin # "none" /\ tresp.status # 200) => resp.status = tresp.status
        /\ resp.status \in {201, 204} => tresp.status = 200

C8_Witness ==
    /\ Done /\ req.method = "POST" /\ tresp.origin = "json" /\ tresp.status = 200
    /\ resp.status = 201

\* C9: a 204 response to a successful DELETE has an empty body: the deleted
\* entity the business method returned is not sent to the client
C9_NoContentHasNoBody ==
    (Done /\ req.method = "DELETE" /\ resp.status = 204 /\ data.t = "model")
        => resp.body.kind = "empty"

\* C10 as claimed: a response built by the business method reaches the client
\* with status, headers and body unchanged
C10_RawUnchanged == (Done /\ data.t = "response") => resp = data.v

\* C10 amended: a response built by the business method reaches the client
\* with its body unchanged; its status is unchanged except that 200 becomes
\* 201 on POST and 204 on DELETE; its headers are unchanged except those the
\* Metadata overrides (content type, content disposition and, in the
\* collection engine, a non-zero total count)
C10_RawPassThrough ==
    (Done /\ data.t = "response") =>
        LET raw == data.v
            md == controller.metadata
        IN  /\ resp.body = raw.body
            /\ resp.origin = "raw" /\ resp.exc = ""
            /\ resp.status = IF raw.status = 200 /\ req.method = "POST" THEN 201
                             ELSE IF raw.status = 200 /\ req.method = "DELETE" THEN 204
                             ELSE raw.status
            /\ resp.headers.ctype = IF md.content_type \notin {None, Some("")}
                                    THEN md.content_type ELSE raw.headers.ctype
            /\ resp.headers.cdisp = IF md.content_name \notin {None, Some("")}
                                    THEN md.content_name ELSE raw.headers.cdisp
            /\ resp.headers.xtotal = IF req.view.engine = "many"
                                        /\ md.total_count \notin {None, Some(0)}
                                     THEN md.total_count ELSE raw.headers.xtotal

C10_Witness ==
    /\ Done /\ data.t = "response" /\ req.method = "POST"
    /\ data.v.status = 200 /\ resp.status = 201
    /\ controller.metadata.content_type # None
    /\ resp.headers.ctype = controller.metadata.content_type

\* C11: an exception raised inside the try block of either transport is
\* classified the same way: a ValidationError gives 400 with the error list,
\* any other ValueError gives 400 with its message, every other exception
\* leaves the view uncaught; no result is encoded and the business method was
\* called at most once
C11_ExceptionClasses ==
    (pc \in {"return", "done"} /\ data.t = "raise") =>
        LET e == data.v
        IN  /\ Len(calls) <= 1
            /\ tresp.origin # "json" /\ tresp.body.kind \notin {"json-object", "json-array"}
            /\ IF e \in {"ValidationError"}
               THEN tresp.status = 400 /\ tresp.body = TextBody("errors") /\ tresp.exc = ""
               ELSE IF e \in {"ValueError", "UnicodeDecodeError"}
               THEN tresp.status = 400 /\ tresp.body = TextBody("message") /\ tresp.exc = ""
               ELSE tresp.exc = e /\ tresp.origin = "raise"
            /\ Done => resp = tresp

C11_Witness ==
    /\ Done /\ data = PyRaise("UnicodeDecodeError") /\ Len(calls) = 1
    /\ req.view.engine = "single" /\ req.method = "DELETE"
    /\ resp.status = 400 /\ resp.body = TextBody("message")

\* a POST of a valid Create object to the collection route of the samples
SampleCreate ==
    /\ req.method = "POST" /\ req.body.kind = "object" /\ BodyValid(req)
    /\ req.view = create_type_for("many", "SampleController", None)

\* C13: after any sequence of create and delete requests, also one that
\* deleted every sample, a POST of a valid Create object to the sample
\* collection is answered 201 with an object whose identity is greater than
\* every other identity stored
C13_CreateAssignsGreaterId ==
    (Done /\ SampleCreate) =>
        /\ resp.status = 201
        /\ resp.body.kind = "json-object"
        /\ \A k \in StorageKeys(storage) \ {resp.body.items[1]} : resp.body.items[1] > k

\* C14: on the collection engine a total count n >= 0 set by the business
\* method is sent as X-Total-Count: n with the encoded result
C14_TotalCountHeader ==
    (Done /\ req.view.engine = "many" /\ tresp.origin = "json"
          /\ ~IsNone(controller.metadata.total_count))
        => resp.headers.xtotal = controller.metadata.total_count

\* request r has been dispatched
Dispatched(r) == tasks[r].pc \notin {"new", "dispatch"}

\* the controller request r works with
ControllerOf(r) == heap[tasks[r].self].controller

\* C12: in every interleaving of concurrent requests each request works with
\* a view instance, Controller, Context and Metadata created for it during its
\* own dispatch and shared with no other request, and the headers of its
\* response carry the metadata its own business method wrote, never another's
C12_RequestIsolation ==
    \A r \in 1..MaxRequests :
        /\ Dispatched(r) =>
              /\ heap[tasks[r].self].kind = "view" /\ heap[tasks[r].self].by = r
              /\ ControllerOf(r) # 0
              /\ heap[ControllerOf(r)].kind = "controller"
              /\ heap[ControllerOf(r)].by = r
              /\ heap[heap[ControllerOf(r)].context].kind = "context"
              /\ heap[heap[ControllerOf(r)].context].by = r
              /\ tasks[r].bound_to \in {0, ControllerOf(r)}
              /\ tasks[r].pc \in {"transport", "call"} =>
                     heap[ControllerOf(r)].metadata = NoMetadata
              /\ \A q \in 1..MaxRequests \ {r} :
                     Dispatched(q) =>
                        /\ tasks[q].self # tasks[r].self
                        /\ ControllerOf(q) # ControllerOf(r)
                        /\ heap[ControllerOf(q)].context # heap[ControllerOf(r)].context
        /\ tasks[r].pc \in {"encode", "done"} =>
              heap[ControllerOf(r)].metadata = tasks[r].wrote
        /\ tasks[r].pc = "done" =>
              tasks[r].headers =
                  ApplyMetadata(JsonResponse(PyList(<<>>)), tasks[r].wrote, TRUE).headers

C12_Witness ==
    /\ tasks[1].pc = "done" /\ tasks[2].pc = "done"
    /\ tasks[2].self < tasks[1].self /\ ControllerOf(1) < ControllerOf(2)
    /\ tasks[1].wrote.total_count = Some(2) /\ tasks[2].wrote.content_type = Some("text/csv")
    /\ tasks[2].wrote.total_count = None
    /\ tasks[1].headers.xtotal = Some(2) /\ tasks[2].headers.xtotal = None
    /\ tasks[1].headers.ctype = Some("application/json")
    /\ tasks[2].headers.ctype = Some("text/csv")

ManyRoutes(rts) == {i \in 1..Len(rts) : Len(rts[i].name) = 2 /\ rts[i].name[2] = "many"}

\* no two routes of the table share their path
DistinctPaths(rts) ==
    \A i \in 1..Len(rts) : \A j \in 1..Len(rts) : rts[i].route = rts[j].route => i = j

\* the operation documented for a route and a verb
DocumentedOp(doc, r, verb) ==
    DictGet(DictGet(doc.paths,
                    PathOa(r.route, ResourcePk(ControllerResource(r.view.Controller)))),
            verb)

\* C16: for every registered controller the $ref in the documented response
\* of its collection GET names a components.schemas entry that is the schema
\* of the Retrieve model of that controller's own Resource
C16_RefResolvesToOwnRetrieve ==
    \A d \in 1..Len(docs) :
        DistinctPaths(docs[d].before) =>
            \A i \in ManyRoutes(docs[d].before) :
                LET r == docs[d].before[i]
                    ref == DocumentedOp(docs[d].doc, r, "get").response.ref
                IN  /\ DictHas(docs[d].doc.components, ref)
                    /\ DictGet(docs[d].doc.components, ref).of
                           = Model(ControllerResource(r.view.Controller), "Retrieve")

\* C17: for every route and every verb of the verb map of its endpoint the
\* operation documented under that path and verb is summarized with the
\* controller and the operation the verb map names; a create POST is
\* synthesized only for collection routes and never replaces a mapped POST
C17_DocumentedOpIsMappedOp ==
    \A d \in 1..Len(docs) :
        DistinctPaths(docs[d].before) =>
            \A i \in 1..Len(docs[d].before) :
                LET r == docs[d].before[i]
                    mm == r.view.METHOD_MAP
                    path == PathOa(r.route, ResourcePk(ControllerResource(r.view.Controller)))
                    item == DictGet(docs[d].doc.paths, path)
                IN  /\ DictHas(docs[d].doc.paths, path)
                    /\ \A verb \in DOMAIN mm :
                          /\ DictHas(item, verb)
                          /\ DictGet(item, verb).summary = <<r.view.Controller, mm[verb]>>
                    /\ \A k \in 1..Len(item) :
                          item[k].k \notin DOMAIN mm =>
                             /\ item[k].k = "post"
                             /\ item[k].v.summary = <<r.view.Controller, "create_one">>
                             /\ r.view.engine = "many"

-----------------------------------------------------------------------------
\* Query parameters and the arguments of the business method

\* the target business function and the query parameters of the request
TargetSpec == FuncSpec(req.view.Controller, handlerName)

\* the transport came to the point of calling the business method
CallAttempted == data # NoData

\* the query parameter n met no place in the target function: its name is
\* not in the signature and there is no **catch-all
NoPlaceFor(n) == n \notin TargetSpec.args /\ ~TargetSpec.varkw

\* the query parameter n is declared int or str by the target function, and
\* its value has several elements or is one the type does not accept
Uncoercible(n) ==
    /\ n \in DOMAIN TargetSpec.annotations
    /\ TargetSpec.annotations[n] \in {"int", "str"}
    /\ \/ Len(req.GET[n].v) > 1
       \/ Len(req.GET[n].v) = 1 /\ Construct(TargetSpec.annotations[n], req.GET[n].v[1]).exc # ""

\* C18: a query parameter sent with exactly one value, whose parameter of the
\* target business function is declared int or str and whose value that type
\* accepts, is among the arguments of the business method as the constructed
\* value of that type
C18_SingleValueCoerced ==
    calls # <<>> =>
        \A n \in DOMAIN req.GET :
            LET val == req.GET[n]
                spec == FuncSpec(req.view.Controller, handlerName)
            IN  (/\ val.t = "list" /\ Len(val.v) = 1
                 /\ n \in DOMAIN spec.annotations
                 /\ spec.annotations[n] \in {"int", "str"}
                 /\ Construct(spec.annotations[n], val.v[1]).exc = "")
                => /\ n \in DOMAIN calls[1].kwargs
                   /\ calls[1].kwargs[n] = Construct(spec.annotations[n], val.v[1]).v

\* C19: a query parameter whose name is neither in the signature of the
\* target function nor caught by a **catch-all is dropped and the business
\* method is invoked without it; a query parameter among the arguments of the
\* business method has a place in the function
C19_UnknownParameterDropped ==
    /\ CallAttempted =>
          \A n \in DOMAIN req.GET :
              NoPlaceFor(n) => calls # <<>> /\ n \notin DOMAIN calls[1].kwargs
    /\ calls # <<>> =>
          \A n \in DOMAIN req.GET \cap DOMAIN calls[1].kwargs : ~NoPlaceFor(n)

\* C20: a query value of several elements, or one the declared type does not
\* accept, does not keep the business method from being invoked, and the
\* method receives the value as it was sent
C20_UncoercibleValuePassed ==
    CallAttempted =>
        \A n \in DOMAIN req.GET :
            Uncoercible(n) =>
                /\ calls # <<>>
                /\ n \in DOMAIN calls[1].kwargs
                /\ \/ calls[1].kwargs[n] = req.GET[n]
                   \/ Len(req.GET[n].v) = 1 /\ calls[1].kwargs[n] = req.GET[n].v[1]

-----------------------------------------------------------------------------
\* Route tables of several routers

\* the number of routes the calls before the k-th call of h added
RoutesBefore(h, k) ==
    Cardinality(UNION {{<<j, b>> : b \in 1..h[j].n} : j \in 1..(k - 1)})

\* rt is a basic route of the registration of ctrl under url
IsBasicRoute(rt, url, ctrl, engine) ==
    /\ rt.view = create_type_for(engine, ctrl, None)
    /\ rt.name = <<url, IF engine = "single" THEN "retrieve" ELSE "many">>

\* rt is the route of an action of the registration of ctrl under url
IsActionRoute(rt, url, ctrl) ==
    /\ Len(rt.name) = 3
    /\ rt.name[1] = url
    /\ rt.name[3] \in ActionNames(ctrl)
    /\ LET m == ActionOf(ctrl, rt.name[3])
       IN  /\ rt.name[2] = IF m.detail THEN "retrieve" ELSE "many"
           /\ rt.view = create_type_for(IF m.detail THEN "single" ELSE "many", ctrl,
                                        Some(build_methods_map(m)))

\* C21: the route list of every router is, call after call in call order, the
\* routes each call added; a register call added the routes of all actions of
\* the controller and then, as the last two, its single-entity and its
\* collection route; an append call added the routes of the other router in
\* their order
C21_RouteOrder ==
    \A r \in RouterNames :
        LET h == history[r]
            rts == routers[r]
        IN  /\ Len(rts) = RoutesBefore(h, Len(h) + 1)
            /\ \A k \in 1..Len(h) :
                  LET off == RoutesBefore(h, k)
                      n == h[k].n
                  IN  IF h[k].op = "register"
                      THEN /\ n >= 2
                           /\ \A i \in 1..(n - 2) : IsActionRoute(rts[off + i], h[k].url, h[k].ctrl)
                           /\ \A a \in ActionNames(h[k].ctrl) :
                                 \E i \in 1..(n - 2) : rts[off + i].name[3] = a
                           /\ IsBasicRoute(rts[off + n - 1], h[k].url, h[k].ctrl, "single")
                           /\ IsBasicRoute(rts[off + n], h[k].url, h[k].ctrl, "many")
                      ELSE /\ n <= Len(routers[h[k].sub])
                           /\ \A i \in 1..n :
                                 /\ rts[off + i].view = routers[h[k].sub][i].view
                                 /\ rts[off + i].route = <<r>> \o routers[h[k].sub][i].route

\* C21 witness: HttpRouter('api') registered a controller and then took in
\* the routes of a router that had registered SampleController
C21_Witness ==
    \E k \in 2..Len(history["api"]) :
        /\ history["api"][k].op = "append"
        /\ history["api"][k].n > 2
        /\ history["api"][k - 1].op = "register"
        /\ \E j \in 1..Len(history[history["api"][k].sub]) :
              history[history["api"][k].sub][j].ctrl = "SampleController"

\* the register calls on each router name pairwise distinct path segments,
\* and no router was taken in twice
DistinctSegments ==
    \A r \in RouterNames :
        \A j, k \in 1..Len(history[r]) :
            (/\ j # k
             /\ history[r][j].op = history[r][k].op)
            => IF history[r][j].op = "register"
               THEN history[r][j].url # history[r][k].url
               ELSE history[r][j].sub # history[r][k].sub

\* C22: when the register calls on each router name pairwise distinct path
\* segments and each router is taken in at most once, no two routes of a
\* route list have the same name
C22_RouteNamesDistinct ==
    DistinctSegments =>
        \A r \in RouterNames :
            \A i, j \in 1..Len(routers[r]) :
                i # j => routers[r][i].name # routers[r][j].name

-----------------------------------------------------------------------------
\* Documentation routers

\* C23: the openapi.json view of a SwaggerRouter answers with the document
\* generated from the router that SwaggerRouter was built for, whichever
\* url lists were obtained before
C23_ViewServesOwnRouter ==
    served # <<>> =>
        served[1].doc = build(routers[swaggers[served[1].by].router]).doc

====
